---- MODULE Spec2Model ----
(***************************************************************************)
(* Cuckoo Cycle solver: the job queue and its worker (cuckoo_miner.h part  *)
(* of the plugin), and the cycle finder that a solve runs on the trimmed   *)
(* edges.                                                                  *)
(***************************************************************************)
EXTENDS Integers, Sequences, FiniteSets, TLC

(***************************************************************************)
(* Sizes.  The program's sizes are far beyond explicit-state checking      *)
(* (MAX_QUEUE_SIZE is a run-time global defaulting to 20, NX = 128,        *)
(* NYZ2 = 512, PROOFSIZE = 42, MAXPATHLEN = 8192); the model keeps their   *)
(* roles and their order (PROOFSIZE <= MAXPATHLEN < CUCKOO_SIZE) at small  *)
(* values.                                                                 *)
(***************************************************************************)
MAX_QUEUE_SIZE == 2

MaxPushes == 3

NX == 2

NYZ2 == 4

ProofPairs == 2

PROOFSIZE == 2 * ProofPairs

MAXPATHLEN == 6

NODEBITS == 30

\* edge nonces are below 2^EdgeBits and are held in words of WordBits bits
\* (29 and 32 in the program)
EdgeBits == 4

WordBits == 6

\* names per side that the edges of the cycle finder's scenario are drawn from
FinderNodes == 3

\* edges processed in the cycle finder's scenario
MaxEdges == 5

\* records of the one column vx that the rename scenario follows
RenameRecords == 4

\* words of the twice_set of the degree scenario, and calls of set in it
TwiceWords == 2

MaxSets == 4

\* bytes of a record (5, 6 or 4 in the program), records that fit a bucket,
\* and writes made in the indexer scenario
SlotBytes == 2

BucketSlots == 2

MaxWrites == 3

\* bytes of renameu1, renamev1, renameu and renamev at the end of a bucket's
\* arena (sizeof(u32) * RENAMESIZE in the program)
RenameBytes == 2

\* buckets in the row an indexer addresses (NY or NX in the program)
IxBuckets == 2

\* bits of an edge's prefix kept in a record (NONYZBITS, NONDEGBITS, ...)
PrefBits == 3

\* tp.ntrims of the trimming scenario (176 by default)
NTrims == 6

\* records of the one row of the scratch that the pass scenario follows
RowRecords == 3

\* calls of trim() that the host scenario follows
MaxTrims == 3

MAX_DATA_LENGTH == 2048

\* ~0, all 32 bits set; written here as the same bit pattern read as a signed
\* word.  It is only ever compared for equality with node ids, which are
\* below CUCKOO_SIZE.
CUCKOO_NIL == -1

CUCKOO_SIZE == 2 * NX * NYZ2

Workers == {1, 2}

Producers == {1, 2}

None == "none"

(***************************************************************************)
(* Nodes, nonces and the rename tables.                                    *)
(*                                                                         *)
(* A node of the graph is x * NYZ + yz on its side.  The trimmer leaves    *)
(* the surviving edges in the buckets under compressed names,              *)
(* x * NYZ2 + name2, with the two-level rename tables that lead from a     *)
(* name back to yz.                                                        *)
(***************************************************************************)
NEDGES == 2 ^ EdgeBits

NYZ1 == 2 * NYZ2

NYZ == 2 * NYZ1
NZ == NYZ \div NX

\* a node no trimmed edge touches (odd yz; the tables below hold even yz)
FarNode == NX * NYZ - 1

\* the tables the trimmer left: second level (name2 -> name1), first level
\* (name1 -> yz); x is the bucket row (U side) or column (V side)
renameu1 == [x \in 0..(NX - 1) |-> [n2 \in 0..(NYZ2 - 1) |-> NYZ1 - 1 - n2]]

renamev1 == [x \in 0..(NX - 1) |-> [n2 \in 0..(NYZ2 - 1) |-> n2 + x]]

renameu == [x \in 0..(NX - 1) |-> [n1 \in 0..(NYZ1 - 1) |-> 2 * n1]]

renamev == [x \in 0..(NX - 1) |-> [n1 \in 0..(NYZ1 - 1) |-> 2 * ((n1 + 1) % NYZ1)]]

(***************************************************************************)
(* Headers.  A header keys the graph (dipnode); what the cycle finder sees *)
(* of it is the trimmed edge list that trim() leaves in the buckets.  Each *)
(* header is given by its surviving edges: the compressed names u, v of    *)
(* the endpoints and the nonce of the edge, in the order of the trimmed    *)
(* list; nonce -1 marks a record of the trimmed list that is the image of  *)
(* no nonce.                                                               *)
(***************************************************************************)
Headers == {"hEmpty", "hCycle", "hLong"}

AllHeaders == Headers \cup {"hTwo", "hTwin", "hGhost", "hGrid"}

\* U nodes spread over the X values
Spread(i) == (i % NX) * NYZ2 + (i \div NX)

\* the edges u0-v0, u1-v0, u1-v1, ..., u0-v(m-1) of a cycle on 2m nodes, as
\* <<uxyz, vxyz>>; the U nodes are spread over the X values, or all in X = 0
CycleEdges(m, spread) ==
  [k \in 1..(2 * m) |->
     LET i == (k \div 2) % m
     IN  <<IF spread THEN Spread(i) ELSE i, (k - 1) \div 2>>]

\* a second cycle on 2m nodes, disjoint from CycleEdges(m, TRUE)
SecondCycle(m) ==
  [k \in 1..(2 * m) |->
     LET i == (k \div 2) % m
     IN  <<Spread(i + m), m + (k - 1) \div 2>>]

\* nonces of the k-th edge of the first and of the second cycle: the first
\* cycle holds the largest nonce and nonce 0
Nonce1(k) == IF k = 1 THEN NEDGES - 1 ELSE 2 * (k - 2)

Nonce2(k) == 2 * k - 1

WithNonces(edges, first) ==
  [k \in 1..Len(edges) |->
     [nonce |-> IF first THEN Nonce1(k) ELSE Nonce2(k), u |-> edges[k][1], v |-> edges[k][2]]]

\* every pair of the FinderNodes first names of bucket [0][0]
GridEdges ==
  [k \in 1..(FinderNodes * FinderNodes) |->
     [nonce |-> k - 1, u |-> (k - 1) \div FinderNodes, v |-> (k - 1) % FinderNodes]]

Surviving(h) ==
  CASE h = "hEmpty" -> <<>>
    [] h = "hCycle" -> WithNonces(CycleEdges(ProofPairs, TRUE), TRUE)
    [] h = "hLong"  -> WithNonces(CycleEdges((MAXPATHLEN + 3) \div 2, FALSE), TRUE)
    [] h = "hTwo"   -> WithNonces(CycleEdges(ProofPairs, TRUE), TRUE)
                         \o WithNonces(SecondCycle(ProofPairs), FALSE)
    [] h = "hTwin"  -> LET c == WithNonces(CycleEdges(ProofPairs, FALSE), TRUE)
                       IN  c \o <<[c[Len(c)] EXCEPT !.nonce = 1]>>
    [] h = "hGhost" -> LET c == WithNonces(CycleEdges(ProofPairs, TRUE), TRUE)
                       IN  [c EXCEPT ![2].nonce = -1]
    [] h = "hGrid"  -> GridEdges

EdgesOf(h) == [k \in 1..Len(Surviving(h)) |-> <<Surviving(h)[k].u, Surviving(h)[k].v>>]

\* the words of bucket [ux][vx]: (uyz << YZ2BITS) | vyz, in list order
RECURSIVE WordsOf(_, _, _)
WordsOf(edges, ux, vx) ==
  IF edges = <<>> THEN <<>>
  ELSE LET e == Head(edges)
       IN  (IF e[1] \div NYZ2 = ux /\ e[2] \div NYZ2 = vx
              THEN <<(e[1] % NYZ2) * NYZ2 + (e[2] % NYZ2)>>
              ELSE <<>>) \o WordsOf(Tail(edges), ux, vx)

Trimmed(h) == [ux \in 0..(NX - 1) |-> [vx \in 0..(NX - 1) |-> WordsOf(EdgesOf(h), ux, vx)]]

\* the nodes that the endpoints of a surviving edge e were renamed from
NamedNodes(e) ==
  <<(e.u \div NYZ2) * NYZ
      + renameu[e.u \div NYZ2][renameu1[e.u \div NYZ2][e.u % NYZ2]],
    (e.v \div NYZ2) * NYZ
      + renamev[e.v \div NYZ2][renamev1[e.v \div NYZ2][e.v % NYZ2]]>>

\* both endpoints of nonce nce, s being the surviving edges
HashIn(s, nce) ==
  IF \A k \in 1..Len(s) : s[k].nonce # nce THEN <<FarNode, FarNode>>
  ELSE NamedNodes(s[CHOOSE k \in 1..Len(s) : s[k].nonce = nce])

\* the siphash of every nonce under the keys of each header, both sides.
\* The nonces of the surviving edges hash to the nodes the trimmer named;
\* every other nonce hashes to nodes that were trimmed away.
Hashes ==
  [h \in AllHeaders |-> [nce \in 0..(NEDGES - 1) |-> HashIn(Surviving(h), nce)]]

\* dipnode(keys, nce, uorv): the endpoint of edge nce on side uorv
dipnode(keys, nce, uorv) == Hashes[keys][nce][uorv + 1]

(***************************************************************************)
(* Recovery of the nonces of a cycle (solver_ctx::solution and the kernels *)
(* it launches).                                                           *)
(***************************************************************************)

\* nonce_cmp: *(u32 *)a - *(u32 *)b, returned as an int of WordBits bits
nonce_cmp(a, b) ==
  LET d == (a - b) % (2 ^ WordBits)
  IN  IF d >= 2 ^ (WordBits - 1) THEN d - 2 ^ WordBits ELSE d

\* qsort with nonce_cmp, as an insertion sort
RECURSIVE Insert(_, _)
Insert(sorted, x) ==
  IF sorted = <<>> THEN <<x>>
  ELSE IF nonce_cmp(x, Head(sorted)) < 0 THEN <<x>> \o sorted
  ELSE <<Head(sorted)>> \o Insert(Tail(sorted), x)

RECURSIVE qsort(_)
qsort(a) == IF a = <<>> THEN <<>> ELSE Insert(qsort(Tail(a)), Head(a))

\* recoveredges: block j turns the compressed names of uvnodes[2j], [2j+1]
\* back into nodes through the second-level and the first-level table
recoveredges(uv) ==
  [j \in 1..Len(uv) |->
     LET ux  == uv[j].u \div NYZ2
         vx  == uv[j].v \div NYZ2
         uyz == renameu1[ux][uv[j].u % NYZ2]
         vyz == renamev1[vx][uv[j].v % NYZ2]
     IN  [u |-> ux * NYZ + renameu[ux][uyz], v |-> vx * NYZ + renamev[vx][vyz]]]

\* u >> ZBITS: the X and Y parts of a node
UxyOf(u) == u \div NZ

\* sol[j] = nonce by every thread whose nonce matches slot j: the slot ends
\* with the nonce of the last writer, or with what it held when none wrote
LastWriter(hits, held, sched) ==
  IF hits = {} THEN held
  ELSE IF sched = "lo" THEN CHOOSE n \in hits : \A m \in hits : n <= m
  ELSE CHOOSE n \in hits : \A m \in hits : n >= m

\* recoveredges1: the bits of the U nodes of the cycle are set in the shared
\* bitmap uxymap, which starts from whatever the shared memory held (the
\* bits stale); every nonce whose U endpoint has its bit set is written to
\* the slots whose endpoint pair it matches.  A slot no nonce matches keeps
\* what the device array sol held; of several nonces matching one slot the
\* last writer stays, which the thread schedule decides (sched).
recoveredges1(keys, uv, sol, sched, stale) ==
  [j \in 1..Len(uv) |->
     LastWriter({n \in 0..(NEDGES - 1) :
                   /\ UxyOf(dipnode(keys, n, 0))
                        \in stale \cup {UxyOf(uv[i].u) : i \in 1..Len(uv)}
                   /\ dipnode(keys, n, 0) = uv[j].u
                   /\ dipnode(keys, n, 1) = uv[j].v},
                sol[j], sched)]

Scheds == {"lo", "hi"}

(***************************************************************************)
(* Cycle finder (solver_ctx).  The context st holds keys (the header the   *)
(* sip keys were set from), sched, cuckoo, sols (the proofs, oldest        *)
(* first), dsol (the device array sol), hsol (the host's copy of it, never *)
(* written), exited, and what the last edge left behind: found (the length *)
(* printed by "%4d-cycle found", 0 when none was) and uvs (the uvnodes     *)
(* recorded by each call of solution, oldest first).                       *)
(***************************************************************************)

\* path(u, us): follow cuckoo from u, collecting the nodes visited.  ok is
\* FALSE when the walk reaches MAXPATHLEN nodes without meeting NIL, the
\* branch that prints a diagnostic and calls exit(0).
RECURSIVE PathFrom(_, _, _)
PathFrom(cuckoo, u, us) ==
  IF u = CUCKOO_NIL THEN [ok |-> TRUE, us |-> us]
  ELSE IF Len(us) >= MAXPATHLEN THEN [ok |-> FALSE, us |-> us]
  ELSE PathFrom(cuckoo, cuckoo[u], Append(us, u))

path(cuckoo, u) == PathFrom(cuckoo, u, <<>>)

\* both paths kept whole, their equal tails included
CommonTailKept(us, vs, nu, nv) == [nu |-> Len(us) - 1, nv |-> Len(vs) - 1]

\* for (nu -= min, nv -= min; us[nu] != vs[nv]; nu++, nv++) ;
\* (us, vs are 1-based here: C index i is us[i+1])
RECURSIVE CommonTail(_, _, _, _)
CommonTail(us, vs, nu, nv) ==
  IF us[nu + 1] = vs[nv + 1] THEN [nu |-> nu, nv |-> nv]
  ELSE CommonTail(us, vs, nu + 1, nv + 1)

\* Reverse that leaves the links of the path as they are
ReverseNothing(cuckoo, us, nu) == cuckoo

\* while (nu--) cuckoo[us[nu+1]] = us[nu];
RECURSIVE Reverse(_, _, _)
Reverse(cuckoo, us, nu) ==
  IF nu = 0 THEN cuckoo
  ELSE Reverse([cuckoo EXCEPT ![us[nu + 1]] = us[nu]], us, nu - 1)

\* the links of the path from u0 recorded as (child, parent), whichever side
\* the child is on
RECURSIVE RecordUInOrder(_, _)
RecordUInOrder(us, nu) ==
  IF nu = 0 THEN <<>>
  ELSE <<[u |-> us[nu] \div 2, v |-> us[nu + 1] \div 2]>> \o RecordUInOrder(us, nu - 1)

\* recordedge(i, u2, v2) for the closing edge and the links of both paths.
RECURSIVE RecordU(_, _)
RecordU(us, nu) ==
  IF nu = 0 THEN <<>>
  ELSE LET k == nu - 1
           a == (k + 1) - ((k + 1) % 2)
           b == IF k % 2 = 1 THEN k ELSE k + 1
       IN  <<[u |-> us[a + 1] \div 2, v |-> us[b + 1] \div 2]>> \o RecordU(us, k)

RECURSIVE RecordV(_, _)
RecordV(vs, nv) ==
  IF nv = 0 THEN <<>>
  ELSE LET k == nv - 1
           a == IF k % 2 = 1 THEN k ELSE k + 1
           b == (k + 1) - ((k + 1) % 2)
       IN  <<[u |-> vs[a + 1] \div 2, v |-> vs[b + 1] \div 2]>> \o RecordV(vs, k)

\* the uvnodes that solution() records
uvnodes(us, nu, vs, nv) ==
  <<[u |-> us[1] \div 2, v |-> vs[1] \div 2]>> \o RecordU(us, nu) \o RecordV(vs, nv)

\* solution(): record the edges, recover their nonces on the device, copy
\* the device array to the end of sols and sort that copy
solution(st, us, nu, vs, nv) ==
  LET uv  == uvnodes(us, nu, vs, nv)
      sol == recoveredges1(st.keys, recoveredges(uv), st.dsol, st.sched, st.uxymap)
  IN  [st EXCEPT !.uvs = Append(@, uv), !.dsol = sol, !.sols = Append(@, qsort(sol))]

\* a test that takes no two paths to end at the same root
SameRootNever(us, nu, vs, nv) == FALSE

\* if (us[nu] == vs[nv]): both paths end at the same root
SameRoot(us, nu, vs, nv) == us[nu + 1] = vs[nv + 1]

\* The body of the loops of findcycles for one word e of bucket [ux][vx].
FindCyclesEdge(st, ux, vx, e) ==
  LET uxyz == ux * NYZ2 + (e \div NYZ2)
      vxyz == vx * NYZ2 + (e % NYZ2)
      u0   == uxyz * 2
      v0   == vxyz * 2 + 1
      pu   == path(st.cuckoo, u0)
      pv   == path(st.cuckoo, v0)
      us   == pu.us
      vs   == pv.us
      nu   == Len(us) - 1
      nv   == Len(vs) - 1
  IN  IF st.exited THEN st
      ELSE IF ~pu.ok \/ ~pv.ok THEN [st EXCEPT !.exited = TRUE, !.found = 0]
      ELSE IF SameRoot(us, nu, vs, nv) THEN
        LET min == IF nu < nv THEN nu ELSE nv
            t   == CommonTail(us, vs, nu - min, nv - min)
            len == t.nu + t.nv + 1
        IN  IF len = PROOFSIZE
              THEN solution([st EXCEPT !.found = len], us, t.nu, vs, t.nv)
              ELSE [st EXCEPT !.found = len]
      ELSE IF nu < nv THEN
        [st EXCEPT !.cuckoo = [Reverse(st.cuckoo, us, nu) EXCEPT ![u0] = v0], !.found = 0]
      ELSE
        [st EXCEPT !.cuckoo = [Reverse(st.cuckoo, vs, nv) EXCEPT ![v0] = u0], !.found = 0]

RECURSIVE FindCyclesWords(_, _, _, _, _)
FindCyclesWords(st, ux, vx, words, i) ==
  IF i > Len(words) THEN st
  ELSE FindCyclesWords(FindCyclesEdge(st, ux, vx, words[i]), ux, vx, words, i + 1)

\* for (vx ...) for (ux ...) over buckets[ux][vx]; k enumerates (vx, ux).
RECURSIVE FindCyclesFrom(_, _, _)
FindCyclesFrom(st, buckets, k) ==
  IF k >= NX * NX THEN st
  ELSE LET vx == k \div NX
           ux == k % NX
       IN  FindCyclesFrom(FindCyclesWords(st, ux, vx, buckets[ux][vx], 1), buckets, k + 1)

findcycles(st, buckets) == FindCyclesFrom(st, buckets, 0)

\* a solver_ctx as constructed: no header yet, the host's sol uninitialised
\* (the words hsol); uxymap is what the shared memory of the recovery kernel
\* holds when it is launched; prev (history) is what sols held when the job
\* before the last ended
NewCtx(hsol) ==
  [keys |-> "hEmpty", sched |-> "lo", cuckoo |-> <<>>, sols |-> <<>>, dsol |-> hsol,
   hsol |-> hsol, exited |-> FALSE, found |-> 0, uvs |-> <<>>, uxymap |-> {},
   prev |-> <<>>]

\* the sip keys set from the header, sols left as it is
SetHeaderKeepingSols(st, header) == [st EXCEPT !.keys = header]

\* setheadergrin: set the sip keys from the header, sols.clear()
setheadergrin(st, header) == [st EXCEPT !.keys = header, !.sols = <<>>]

\* edgetrimmer::trim(): the host's edgetrimmer is copied over the device's,
\* sol included, before the kernels run; the trimmed buckets are its result
trim(st) == [st EXCEPT !.dsol = st.hsol]

\* solve(): trim, copy the trimmed buckets from the trimmer, set the cuckoo
\* table to NIL and run findcycles; the result is sols.size() / PROOFSIZE.
solve(st, sched) ==
  LET t == trim([st EXCEPT !.sched = sched, !.uvs = <<>>, !.found = 0])
  IN  findcycles([t EXCEPT !.cuckoo = [n \in 0..(CUCKOO_SIZE - 1) |-> CUCKOO_NIL]],
                 Trimmed(t.keys))

\* verify(prf, keys): the nonces are in range and strictly ascending, and
\* their edges form one cycle on PROOFSIZE nodes
RECURSIVE Reach(_, _)
Reach(prs, seen) ==
  LET more == {j \in 1..Len(prs) :
                 \E i \in seen : prs[i].u = prs[j].u \/ prs[i].v = prs[j].v}
  IN  IF more \subseteq seen THEN seen ELSE Reach(prs, seen \cup more)

verify(prf, keys) ==
  LET prs == [j \in 1..Len(prf) |->
                [u |-> dipnode(keys, prf[j], 0), v |-> dipnode(keys, prf[j], 1)]]
  IN  IF \E j \in 1..Len(prf) : prf[j] < 0 \/ prf[j] >= NEDGES THEN "POW_TOO_BIG"
      ELSE IF \E j \in 1..(Len(prf) - 1) : prf[j] >= prf[j + 1] THEN "POW_TOO_SMALL"
      ELSE IF \E j \in 1..Len(prf) :
                \/ Cardinality({i \in 1..Len(prf) : prs[i].u = prs[j].u}) # 2
                \/ Cardinality({i \in 1..Len(prf) : prs[i].v = prs[j].v}) # 2
             THEN "POW_BRANCH"
      ELSE IF Reach(prs, {1}) # 1..Len(prf) THEN "POW_SHORT_CYCLE"
      ELSE "POW_OK"

\* a call that hands the last proof of sols to its caller
CallReturningLast(header_data, sched, hsol) ==
  CHOOSE r \in
    {IF c.exited
       THEN [exited |-> TRUE, ret |-> 0, sol_nonces |-> <<>>, pow_rc |-> "none"]
     ELSE IF Len(c.sols) > 0
       THEN [exited |-> FALSE, ret |-> 1, sol_nonces |-> c.sols[Len(c.sols)],
             pow_rc |-> verify(c.sols[Len(c.sols)], header_data)]
     ELSE [exited |-> FALSE, ret |-> 0, sol_nonces |-> <<>>, pow_rc |-> "none"]
       : c \in {solve(setheadergrin(NewCtx(hsol), header_data), sched)}} : TRUE

\* cuckoo_call: one synchronous solve in a solver_ctx of its own (c, the
\* context when solve() has returned); 1 and the first proof, else 0.
\* exited: the solve ended the process through exit(0) in path().  pow_rc
\* is what verify said of the proof returned.
cuckoo_call(header_data, sched, hsol) ==
  CHOOSE r \in
    {IF c.exited
       THEN [exited |-> TRUE, ret |-> 0, sol_nonces |-> <<>>, pow_rc |-> "none"]
     ELSE IF Len(c.sols) > 0
       THEN [exited |-> FALSE, ret |-> 1, sol_nonces |-> c.sols[1],
             pow_rc |-> verify(c.sols[1], header_data)]
     ELSE [exited |-> FALSE, ret |-> 0, sol_nonces |-> <<>>, pow_rc |-> "none"]
       : c \in {solve(setheadergrin(NewCtx(hsol), header_data), sched)}} : TRUE

\* the context inside findcycles when solve() calls it, for the header
\* every pair of whose first FinderNodes names is an edge
FinderStart ==
  [trim(setheadergrin(NewCtx([j \in 1..PROOFSIZE |-> 0]), "hGrid"))
     EXCEPT !.cuckoo = [n \in 0..(CUCKOO_SIZE - 1) |-> CUCKOO_NIL]]

\* const u32 NONAME = ~0
NONAME == -1

\* the threads of a block of the rename kernels (threadIdx.x), and their
\* number
Threads == {0, 1}
blockDim == Cardinality(Threads)

\* the rename kernels not yet launched: no records, no table entry written;
\* stray (history) holds the names whose table entry was written at an
\* index past the table's end
NoRename ==
  [phase |-> "idle", recs |-> <<>>, vy |-> 0,
   names |-> <<>>, nrenames |-> [t \in Threads |-> t],
   done |-> {}, n1 |-> <<>>, n2 |-> <<>>,
   renamev  |-> [n \in 0..(NYZ1 - 1) |-> NONAME],
   renamev1 |-> [n \in 0..(NYZ2 - 1) |-> NONAME],
   stray |-> {}]

\* before the first call of cuckoo_call
NoCall == [header |-> "none", sched |-> "none", hsol |-> <<>>, exited |-> FALSE,
           ret |-> -1, pow_rc |-> "none", out_nonces |-> <<>>]

\* uninitialised words of the host's sol: all zero, all one of two numbers
\* that are nonces as well, or all ones
Garbage == {[j \in 1..PROOFSIZE |-> w] : w \in {0, 2, NEDGES - 1, 2 ^ WordBits - 1}}

\* the outcome of a solve of a header of the queue scenarios depends on the
\* header alone (none of them leaves a slot unfilled or has two nonces on
\* one endpoint pair)
Solved ==
  [hEmpty |-> cuckoo_call("hEmpty", "lo", [j \in 1..PROOFSIZE |-> 0]),
   hCycle |-> cuckoo_call("hCycle", "lo", [j \in 1..PROOFSIZE |-> 0]),
   hLong  |-> cuckoo_call("hLong", "lo", [j \in 1..PROOFSIZE |-> 0])]

(***************************************************************************)
(* Kernels of the trimmer, each followed in a scenario of its own.         *)
(***************************************************************************)

\* bits of a u32
U32Bits == 32

\* twice_set<SIZE>: TWICE_WORDS = (2 * SIZE) / 32 words of two bits per index
TwiceSize == TwiceWords * (U32Bits \div 2)

TWICE_WORDS == (2 * TwiceSize) \div U32Bits

\* a twice_set not yet in use: bits is the shared memory of the block, a
\* word being the set of the positions of its bits that are 1; calls
\* (history) counts the calls of set(u)
NoTwice ==
  [phase |-> "off", bits |-> [b \in 0..(TWICE_WORDS - 1) |-> {}],
   thr |-> [t \in Threads |-> [pc |-> "off", u |-> 0, old |-> {}]],
   calls |-> [u \in 0..(TwiceSize - 1) |-> 0]]

\* sizeof(u32)
U32Bytes == U32Bits \div 8

\* zbucket<BUCKETSIZE, 0, 0>: u32 size, then u8 bytes[BUCKETSIZE]
BUCKETSIZE == BucketSlots * SlotBytes

ZBucketBytes == U32Bytes + BUCKETSIZE

\* the memory holds the IxBuckets buckets of the row an indexer addresses
\* and the zbucket that follows them, which belongs to the next row
MemBytes == (IxBuckets + 1) * ZBucketBytes

\* buckets[x][k].bytes - (u8 *)buckets
BytesAt(k) == k * ZBucketBytes + U32Bytes

\* an indexer not yet in use.  mem is the memory of the zbuckets, byte by
\* byte: 0, byte j of record w (<<w, j>>) or byte j of a stored size
\* (<<"size", v, j>>).  res (history) lists the reservations, the bucket
\* addressed and the offset received, in the order they were made.
NoIndexer ==
  [phase |-> "off", index |-> [k \in 0..(IxBuckets - 1) |-> 0],
   mem |-> [a \in 0..(MemBytes - 1) |-> 0],
   thr |-> [t \in Threads |-> [pc |-> "off", w |-> 0]],
   res |-> <<>>]

\* a kernel's running value of the delta decoding, before the kernel runs:
\* my is the bucket, got the value decoded last, oops whether the diagnostic
\* was printed at the end of the bucket, ended what the thread did then;
\* cur and x (history) are the running value before the last record was read
\* and the value the record was made from, -1 before the first record
NoDelta == [kernel |-> "none", my |-> 0, edge |-> 0, got |-> -1, oops |-> FALSE,
            ended |-> "no", cur |-> -1, x |-> -1]

\* the host and the device between two rounds: nothing launched, the
\* stream empty, no kernel running; T[b] is the part whose stage 1 wrote the
\* scratch slice of block b last (-1: none in this round), acc (history)
\* the buckets each block of the round has touched
NoStages ==
  [phase |-> "idle", nblocks |-> 0, part |-> 0, stage |-> 1, stream |-> <<>>,
   running |-> {}, T |-> [b \in 0..(NX - 1) |-> -1], acc |-> {}]

\* the trimmer before trim(): cnt[n] is the number of records of nonce n in
\* the buckets and at[n] the bucket <<row, column>> they lie in (the records
\* of a nonce have the same endpoints and lie in one bucket), k the number
\* of rounds run after genUnodes, genUblocks and genUtpb the launch
\* dimensions of genUnodes (tp), prev, inU and inV (history) the number of
\* records at the round boundary before the last and the nonces with a
\* record when the last round on U and the last on V began
NoTrim ==
  [graph |-> "none", k |-> -1, genUblocks |-> 0, genUtpb |-> 0,
   cnt |-> [n \in 0..(NX * NYZ - 1) |-> 0],
   at |-> [n \in 0..(NX * NYZ - 1) |-> <<0, 0>>],
   prev |-> 0, inU |-> {}, inV |-> {}]

\* no pass is running: the records of the row, the twice_set, the threads
\* of the block (their place in the kernel, the tile and the record they
\* are at, the word their first atomicOr returned, the barriers they have
\* arrived at) and the records written to the destination
NoPass ==
  [phase |-> "off", recs |-> <<>>,
   bits |-> [b \in 0..(TWICE_WORDS - 1) |-> {}],
   thr |-> [t \in Threads |-> [pc |-> "off", y |-> 0, i |-> 0, old |-> {}, nb |-> 0]],
   out |-> {}]

\* no edge has been hashed: the keys, the nonce and the side of the last
\* call of dipnode, and the node each of its two variants returns (-1)
NoSip == [keys |-> <<>>, nce |-> -1, uorv |-> -1, scalar |-> -1, vector |-> -1]

\* the host before solve() has called trim(): the call of trim() it is at
\* (0 outside trim), DEVICE_INFO[device_id].threw_error, the call at which
\* gpuAssert reported an error during this trim (history, 0 for none), what
\* trim returned (-1 while it has not), whether solve went on to findcycles,
\* and the number of solves so far
NoHost == [pc |-> 0, threw_error |-> FALSE, detected |-> 0, ret |-> -1,
           finder |-> FALSE, jobs |-> 0]

NoKernels == [ts |-> NoTwice, ix |-> NoIndexer, dd |-> NoDelta, st |-> NoStages,
              gr |-> NoTrim, ps |-> NoPass, sh |-> NoSip, tm |-> NoHost]

(***************************************************************************)
(* Job queue and worker.                                                   *)
(***************************************************************************)
VARIABLES
  alive,                         \* the process has not called exit()
  should_quit,                   \* atomic flags
  processing_finished,
  internal_processing_finished,
  is_working,
  SINGLE_MODE,
  INPUT_QUEUE,                   \* sequence of QueueInput, oldest first
  OUTPUT_QUEUE,                  \* sequence of QueueOutput, oldest first
  worker,                        \* the cuckoo_process threads: position, held item, and
                                 \* stale (history): at its last readiness test the
                                 \* thread came round the inner loop, without testing
                                 \* should_quit, while should_quit was set
  producer,                      \* callers of cuckoo_push_to_input_queue
  reader,                        \* caller of cuckoo_read_from_output_queue: result and
                                 \* buffers (-1 and <<>> while unwritten)
  solves,                        \* inputs handed to the back-end and not yet solved
  accepted,                      \* number of pushes that returned 0
  fc,                            \* cycle finder scenario: the context st inside
                                 \* findcycles, linked (history: the edges linked into
                                 \* cuckoo so far) and n (edges processed)
  ctx,                           \* solve scenario: a solver_ctx that serves job after job
  rn,                            \* rename scenario: the two rename kernels on one column
  call,                          \* solve scenario: the caller of cuckoo_call: the header
                                 \* and schedule of its last call, the uninitialised
                                 \* words its context held, the result, and the buffer
                                 \* out_nonces (<<>> while unwritten)
  tk                             \* kernel scenarios of the trimmer, one field each:
                                 \* ts (a twice_set and the threads of its block), ix
                                 \* (an indexer, the memory of its buckets and the
                                 \* threads of its block), dd (one thread's delta
                                 \* decoding of the records it reads), st (the
                                 \* kernels of a two-stage round, the stream they
                                 \* are launched into and their blocks), gr (the
                                 \* records in the buckets from round to round), ps
                                 \* (the second stage of a round on the tiles of
                                 \* one row of the scratch, thread by thread), sh
                                 \* (one call of the device's edge function), tm
                                 \* (the host inside trim(), call by call)

vars == <<alive, should_quit, processing_finished, internal_processing_finished,
          is_working, SINGLE_MODE, INPUT_QUEUE, OUTPUT_QUEUE, worker, producer,
          reader, solves, accepted, fc, ctx, call, rn, tk>>

\* the variables of the solver scenarios
solver == <<fc, ctx, call, rn, tk>>

flags == <<should_quit, processing_finished, internal_processing_finished,
           is_working, SINGLE_MODE>>

\* the arguments of a push: an 80-byte header, one of exactly MAX_DATA_LENGTH
\* bytes, one that is a byte too long
Arg(id, data, length) == [id |-> id, data |-> data, length |-> length, nonce |-> 8]

PushArgs == {Arg(0, "hCycle", 80),
             Arg(1, "hEmpty", MAX_DATA_LENGTH),
             Arg(1, "hEmpty", MAX_DATA_LENGTH + 1),
             Arg(2, "hLong", 80)}

QueueInput(a) == [id |-> a.id, nonce |-> a.nonce, length |-> a.length, data |-> a.data]

QueueOutput(in, sol_nonces) ==
  [id |-> in.id, nonce |-> in.nonce, result_nonces |-> sol_nonces, cuckoo_size |-> NODEBITS]

\* before its first call a producer holds no arguments and no result (-1)
NoArg == [id |-> -1, data |-> None, length |-> -1, nonce |-> -1]

\* a producer between calls: the arguments and the result of its last call
Idle(a, ret) == [pc |-> "idle", arg |-> a, ret |-> ret]

NoThread == [pc |-> "none", item |-> None, stale |-> FALSE]

Init ==
  /\ alive = TRUE
  /\ should_quit = FALSE
  /\ processing_finished = TRUE
  /\ internal_processing_finished = TRUE
  /\ is_working = FALSE
  /\ SINGLE_MODE = TRUE
  /\ INPUT_QUEUE = <<>>
  /\ OUTPUT_QUEUE = <<>>
  /\ worker = [w \in Workers |-> NoThread]
  /\ producer = [p \in Producers |-> Idle(NoArg, -1)]
  /\ reader = [ret |-> -1, id |-> -1, output |-> <<>>, cuckoo_size |-> -1, nonce |-> -1]
  /\ solves = <<>>
  /\ accepted = 0
  /\ fc = [st |-> FinderStart, linked |-> {}, n |-> 0]
  /\ ctx = NewCtx([j \in 1..PROOFSIZE |-> 0])
  /\ call = NoCall
  /\ rn = NoRename
  /\ tk = NoKernels

\* INPUT_QUEUE.size_approx()
size_approx(q) == Len(q)

cuckoo_is_queue_under_limit ==
  IF should_quit THEN 0
  ELSE IF size_approx(INPUT_QUEUE) < MAX_QUEUE_SIZE THEN 1 ELSE 0

cuckoo_has_processing_stopped ==
  IF processing_finished /\ internal_processing_finished THEN 1 ELSE 0

\* pushes in progress: past the flag and length checks, not yet returned
Pushing == {p \in Producers : producer[p].pc # "idle"}

\* cuckoo_push_to_input_queue, entry: the should_quit and data_length checks
PushCall(p, a) ==
  /\ alive
  /\ producer[p].pc = "idle"
  /\ accepted + Cardinality(Pushing) < MaxPushes
  /\ producer' = [producer EXCEPT ![p] =
       IF should_quit THEN Idle(a, 4)
       ELSE IF a.length > MAX_DATA_LENGTH THEN Idle(a, 2)
       ELSE [pc |-> "size", arg |-> a, ret |-> -1]]
  /\ UNCHANGED <<solver, alive, flags, INPUT_QUEUE, OUTPUT_QUEUE, worker, reader, solves, accepted>>

\* PushSize with the test size_approx() > MAX_QUEUE_SIZE
PushSizeStrict(p) ==
  /\ alive
  /\ producer[p].pc = "size"
  /\ producer' = [producer EXCEPT ![p] =
       IF size_approx(INPUT_QUEUE) > MAX_QUEUE_SIZE THEN Idle(@.arg, 1)
       ELSE [@ EXCEPT !.pc = "enqueue"]]
  /\ UNCHANGED <<solver, alive, flags, INPUT_QUEUE, OUTPUT_QUEUE, worker, reader, solves, accepted>>

\* cuckoo_push_to_input_queue: the size_approx() check
PushSize(p) ==
  /\ alive
  /\ producer[p].pc = "size"
  /\ producer' = [producer EXCEPT ![p] =
       IF size_approx(INPUT_QUEUE) >= MAX_QUEUE_SIZE THEN Idle(@.arg, 1)
       ELSE [@ EXCEPT !.pc = "enqueue"]]
  /\ UNCHANGED <<solver, alive, flags, INPUT_QUEUE, OUTPUT_QUEUE, worker, reader, solves, accepted>>

\* cuckoo_push_to_input_queue: build the QueueInput, enqueue it, return 0
PushEnqueue(p) ==
  /\ alive
  /\ producer[p].pc = "enqueue"
  /\ INPUT_QUEUE' = Append(INPUT_QUEUE, QueueInput(producer[p].arg))
  /\ producer' = [producer EXCEPT ![p] = Idle(@.arg, 0)]
  /\ accepted' = accepted + 1
  /\ UNCHANGED <<solver, alive, flags, OUTPUT_QUEUE, worker, reader, solves>>

\* cuckoo_read_from_output_queue without its test of should_quit
ReadIgnoringQuit ==
  /\ alive
  /\ IF OUTPUT_QUEUE # <<>> THEN
       /\ LET item == Head(OUTPUT_QUEUE)
          IN  reader' = [ret |-> 1, id |-> item.id, output |-> item.result_nonces,
                         cuckoo_size |-> item.cuckoo_size, nonce |-> item.nonce]
       /\ OUTPUT_QUEUE' = Tail(OUTPUT_QUEUE)
     ELSE
       /\ reader' = [reader EXCEPT !.ret = 0]
       /\ UNCHANGED OUTPUT_QUEUE
  /\ UNCHANGED <<solver, alive, flags, INPUT_QUEUE, worker, producer, solves, accepted>>

cuckoo_read_from_output_queue ==
  /\ alive
  /\ IF should_quit THEN
       /\ reader' = [reader EXCEPT !.ret = 0]
       /\ UNCHANGED OUTPUT_QUEUE
     ELSE IF OUTPUT_QUEUE # <<>> THEN
       /\ LET item == Head(OUTPUT_QUEUE)
          IN  reader' = [ret |-> 1, id |-> item.id, output |-> item.result_nonces,
                         cuckoo_size |-> item.cuckoo_size, nonce |-> item.nonce]
       /\ OUTPUT_QUEUE' = Tail(OUTPUT_QUEUE)
     ELSE
       /\ reader' = [reader EXCEPT !.ret = 0]
       /\ UNCHANGED OUTPUT_QUEUE
  /\ UNCHANGED <<solver, alive, flags, INPUT_QUEUE, worker, producer, solves, accepted>>

\* MAX_QUEUE_SIZE rounds of try_dequeue on a queue
Drained(q) == SubSeq(q, MAX_QUEUE_SIZE + 1, Len(q))

cuckoo_clear_queues ==
  /\ alive
  /\ INPUT_QUEUE' = Drained(INPUT_QUEUE)
  /\ OUTPUT_QUEUE' = Drained(OUTPUT_QUEUE)
  /\ UNCHANGED <<solver, alive, flags, worker, producer, reader, solves, accepted>>

FreeSlots == {w \in Workers : worker[w].pc = "none"}

\* cuckoo_start_processing: the flags, then pthread_create of cuckoo_process
cuckoo_start_processing ==
  /\ alive
  /\ FreeSlots # {}
  /\ should_quit' = FALSE
  /\ processing_finished' = FALSE
  /\ SINGLE_MODE' = FALSE
  /\ LET w == CHOOSE x \in FreeSlots : \A y \in FreeSlots : x <= y
     IN  worker' = [worker EXCEPT ![w] = [pc |-> "while", item |-> None, stale |-> FALSE]]
  /\ UNCHANGED <<solver, alive, internal_processing_finished, is_working, INPUT_QUEUE,
                 OUTPUT_QUEUE, producer, reader, solves, accepted>>

cuckoo_stop_processing ==
  /\ alive
  /\ should_quit' = TRUE
  /\ UNCHANGED <<solver, alive, processing_finished, internal_processing_finished, is_working,
                 SINGLE_MODE, INPUT_QUEUE, OUTPUT_QUEUE, worker, producer, reader,
                 solves, accepted>>

\* a reset that also marks processing finished
ResetMarkingFinished ==
  /\ alive
  /\ should_quit' = FALSE
  /\ SINGLE_MODE' = TRUE
  /\ processing_finished' = TRUE
  /\ UNCHANGED <<solver, alive, internal_processing_finished, is_working,
                 INPUT_QUEUE, OUTPUT_QUEUE, worker, producer, reader, solves, accepted>>

cuckoo_reset_processing ==
  /\ alive
  /\ should_quit' = FALSE
  /\ SINGLE_MODE' = TRUE
  /\ UNCHANGED <<solver, alive, processing_finished, internal_processing_finished, is_working,
                 INPUT_QUEUE, OUTPUT_QUEUE, worker, producer, reader, solves, accepted>>

\* the back-end is ready when no solve is under way
cuckoo_internal_ready_for_data == ~is_working

\* cuckoo_process: while(!should_quit)
ProcessWhile(w) ==
  /\ alive
  /\ worker[w].pc = "while"
  /\ worker' = [worker EXCEPT ![w].pc = IF should_quit THEN "clear" ELSE "ready"]
  /\ UNCHANGED <<solver, alive, flags, INPUT_QUEUE, OUTPUT_QUEUE, producer, reader, solves, accepted>>

\* ProcessReady that never enters the body of the inner loop
ProcessNeverReady(w) ==
  /\ alive
  /\ worker[w].pc \in {"ready", "again"}
  /\ worker' = [worker EXCEPT ![w] = [@ EXCEPT !.pc = "while"]]
  /\ UNCHANGED <<solver, alive, flags, INPUT_QUEUE, OUTPUT_QUEUE, producer, reader, solves, accepted>>

\* cuckoo_process: while (cuckoo_internal_ready_for_data()); when not ready,
\* usleep(1) and back to the outer test.  The position is "ready" when it is
\* reached from the outer test and "again" when it is reached from the end
\* of the inner loop's body.
ProcessReady(w) ==
  /\ alive
  /\ worker[w].pc \in {"ready", "again"}
  /\ worker' = [worker EXCEPT ![w] =
       IF cuckoo_internal_ready_for_data
         THEN [@ EXCEPT !.pc = "dequeue", !.stale = (worker[w].pc = "again" /\ should_quit)]
         ELSE [@ EXCEPT !.pc = "while"]]
  /\ UNCHANGED <<solver, alive, flags, INPUT_QUEUE, OUTPUT_QUEUE, producer, reader, solves, accepted>>

\* ProcessDequeue taking the newest item of the queue
ProcessDequeueNewest(w) ==
  /\ alive
  /\ worker[w].pc = "dequeue"
  /\ IF INPUT_QUEUE # <<>> THEN
       /\ worker' = [worker EXCEPT ![w] = [@ EXCEPT !.pc = "process",
                                                     !.item = INPUT_QUEUE[Len(INPUT_QUEUE)]]]
       /\ INPUT_QUEUE' = SubSeq(INPUT_QUEUE, 1, Len(INPUT_QUEUE) - 1)
     ELSE
       /\ worker' = [worker EXCEPT ![w] = [@ EXCEPT !.pc = "while", !.stale = FALSE]]
       /\ UNCHANGED INPUT_QUEUE
  /\ UNCHANGED <<solver, alive, flags, OUTPUT_QUEUE, producer, reader, solves, accepted>>

\* cuckoo_process: INPUT_QUEUE.try_dequeue(item); break when nothing was found
ProcessDequeue(w) ==
  /\ alive
  /\ worker[w].pc = "dequeue"
  /\ IF INPUT_QUEUE # <<>> THEN
       /\ worker' = [worker EXCEPT ![w] = [@ EXCEPT !.pc = "process", !.item = Head(INPUT_QUEUE)]]
       /\ INPUT_QUEUE' = Tail(INPUT_QUEUE)
     ELSE
       /\ worker' = [worker EXCEPT ![w] = [@ EXCEPT !.pc = "while", !.stale = FALSE]]
       /\ UNCHANGED INPUT_QUEUE
  /\ UNCHANGED <<solver, alive, flags, OUTPUT_QUEUE, producer, reader, solves, accepted>>

\* cuckoo_process: cuckoo_internal_process_data(item...): the back-end takes
\* the input and the solve is under way
cuckoo_internal_process_data(w) ==
  /\ alive
  /\ worker[w].pc = "process"
  /\ is_working' = TRUE
  /\ internal_processing_finished' = FALSE
  /\ solves' = Append(solves, worker[w].item)
  /\ worker' = [worker EXCEPT ![w] = [pc |-> "again", item |-> None, stale |-> FALSE]]
  /\ UNCHANGED <<solver, alive, should_quit, processing_finished, SINGLE_MODE, INPUT_QUEUE,
                 OUTPUT_QUEUE, producer, reader, accepted>>

\* cuckoo_process: cuckoo_clear_queues() after the loop
ProcessClear(w) ==
  /\ alive
  /\ worker[w].pc = "clear"
  /\ INPUT_QUEUE' = Drained(INPUT_QUEUE)
  /\ OUTPUT_QUEUE' = Drained(OUTPUT_QUEUE)
  /\ worker' = [worker EXCEPT ![w].pc = "finish"]
  /\ UNCHANGED <<solver, alive, flags, producer, reader, solves, accepted>>

\* ProcessFinish without the assignment to processing_finished
ProcessExitOnly(w) ==
  /\ alive
  /\ worker[w].pc = "finish"
  /\ worker' = [worker EXCEPT ![w] = NoThread]
  /\ UNCHANGED <<solver, alive, flags, INPUT_QUEUE, OUTPUT_QUEUE, producer, reader, solves, accepted>>

\* cuckoo_process: processing_finished=true; pthread_exit(NULL)
ProcessFinish(w) ==
  /\ alive
  /\ worker[w].pc = "finish"
  /\ processing_finished' = TRUE
  /\ worker' = [worker EXCEPT ![w] = NoThread]
  /\ UNCHANGED <<solver, alive, should_quit, internal_processing_finished, is_working, SINGLE_MODE,
                 INPUT_QUEUE, OUTPUT_QUEUE, producer, reader, solves, accepted>>

RemoveAt(q, i) == SubSeq(q, 1, i - 1) \o SubSeq(q, i + 1, Len(q))

\* the back-end's solve of solves[i] returns: a proof goes to the output
\* queue and the back-end is ready again; exit() inside the solve ends the
\* process
SolveReturn(i) ==
  /\ alive
  /\ i \in 1..Len(solves)
  /\ LET in == solves[i]
         r  == Solved[in.data]
     IN  IF r.exited THEN
           /\ alive' = FALSE
           /\ UNCHANGED <<flags, INPUT_QUEUE, OUTPUT_QUEUE, solves>>
         ELSE
           /\ OUTPUT_QUEUE' = IF r.ret = 1
                                THEN Append(OUTPUT_QUEUE, QueueOutput(in, r.sol_nonces))
                                ELSE OUTPUT_QUEUE
           /\ is_working' = FALSE
           /\ internal_processing_finished' = TRUE
           /\ solves' = RemoveAt(solves, i)
           /\ UNCHANGED <<solver, alive, should_quit, processing_finished, SINGLE_MODE, INPUT_QUEUE>>
  /\ UNCHANGED <<solver, worker, producer, reader, accepted>>

\* one step of the thread w
cuckoo_process(w) ==
  \/ ProcessWhile(w)
  \/ ProcessReady(w)
  \/ ProcessDequeue(w)
  \/ cuckoo_internal_process_data(w)
  \/ ProcessClear(w)
  \/ ProcessFinish(w)

\* The whole interface, one caller pushing, any number of starts.
Next ==
  \/ \E a \in PushArgs : PushCall(1, a)
  \/ PushSize(1)
  \/ PushEnqueue(1)
  \/ cuckoo_read_from_output_queue
  \/ cuckoo_clear_queues
  \/ cuckoo_start_processing
  \/ cuckoo_stop_processing
  \/ cuckoo_reset_processing
  \/ \E w \in Workers : ProcessWhile(w)
  \/ \E w \in Workers : ProcessReady(w)
  \/ \E w \in Workers : ProcessDequeue(w)
  \/ \E w \in Workers : cuckoo_internal_process_data(w)
  \/ \E w \in Workers : ProcessClear(w)
  \/ \E w \in Workers : ProcessFinish(w)
  \/ \E i \in 1..MaxPushes : SolveReturn(i)

Spec == Init /\ [][Next]_vars

NoWorker == \A w \in Workers : worker[w].pc = "none"

\* Several callers pushing at once, a single start.
NextMP ==
  \/ \E p \in Producers, a \in PushArgs : PushCall(p, a)
  \/ \E p \in Producers : PushSize(p)
  \/ \E p \in Producers : PushEnqueue(p)
  \/ (NoWorker /\ cuckoo_start_processing)
  \/ cuckoo_stop_processing
  \/ \E w \in Workers : ProcessWhile(w)
  \/ \E w \in Workers : ProcessReady(w)
  \/ \E w \in Workers : ProcessDequeue(w)
  \/ \E w \in Workers : cuckoo_internal_process_data(w)
  \/ \E w \in Workers : ProcessClear(w)
  \/ \E w \in Workers : ProcessFinish(w)
  \/ \E i \in 1..MaxPushes : SolveReturn(i)

SpecMP == Init /\ [][NextMP]_vars

\* The scheduler runs every thread that can take a step, and every solve
\* handed to the back-end returns.
Fairness ==
  /\ \A w \in Workers : WF_vars(cuckoo_process(w))
  /\ \A i \in 1..MaxPushes : WF_vars(SolveReturn(i))

\* Shutdown scenario: starts, pushes by one caller and stops in any order,
\* with the worker threads and the solves; nobody reads, clears or resets.
NextS ==
  \/ \E a \in PushArgs : PushCall(1, a)
  \/ PushSize(1)
  \/ PushEnqueue(1)
  \/ cuckoo_start_processing
  \/ cuckoo_stop_processing
  \/ \E w \in Workers : ProcessWhile(w)
  \/ \E w \in Workers : ProcessReady(w)
  \/ \E w \in Workers : ProcessDequeue(w)
  \/ \E w \in Workers : cuckoo_internal_process_data(w)
  \/ \E w \in Workers : ProcessClear(w)
  \/ \E w \in Workers : ProcessFinish(w)
  \/ \E i \in 1..MaxPushes : SolveReturn(i)

SpecS == Init /\ [][NextS]_vars /\ Fairness

\* Back-pressure scenario: the worker is started, then one caller pushes
\* 80-byte headers with ids 0, 1, 2, ... for as long as its pushes return 0;
\* nobody stops the worker or reads the output.
NextB ==
  \/ (SINGLE_MODE /\ cuckoo_start_processing)
  \/ (~SINGLE_MODE /\ producer[1].ret \in {-1, 0} /\ PushCall(1, Arg(accepted, "hCycle", 80)))
  \/ PushSize(1)
  \/ PushEnqueue(1)
  \/ \E w \in Workers : ProcessWhile(w)
  \/ \E w \in Workers : ProcessReady(w)
  \/ \E w \in Workers : ProcessDequeue(w)
  \/ \E w \in Workers : cuckoo_internal_process_data(w)
  \/ \E i \in 1..MaxPushes : SolveReturn(i)

SpecB == Init /\ [][NextB]_vars /\ Fairness

(***************************************************************************)
(* C1.  cuckoo_push_to_input_queue returns 4 when should_quit is set (at   *)
(* its test of the flag), otherwise 2 when data_length > 2048, otherwise 1 *)
(* when the input queue holds MAX_QUEUE_SIZE or more items (at its test of *)
(* the size), otherwise 0.  On 0 exactly one item with the given id,       *)
(* length, nonce and data is appended to the input queue; on a non-zero    *)
(* return the queues and the flags are unchanged.                          *)
(***************************************************************************)
C1_PushContract ==
  [][\A p \in Producers :
       LET b == producer[p]
           a == producer'[p]
       IN  /\ (b.pc = "idle" /\ a # b) =>
                /\ should_quit => (a.pc = "idle" /\ a.ret = 4)
                /\ (~should_quit /\ a.arg.length > MAX_DATA_LENGTH) =>
                     (a.pc = "idle" /\ a.ret = 2)
                /\ (~should_quit /\ a.arg.length <= MAX_DATA_LENGTH) => a.pc = "size"
           /\ (b.pc = "size" /\ a # b) =>
                /\ a.arg = b.arg
                /\ Len(INPUT_QUEUE) >= MAX_QUEUE_SIZE => (a.pc = "idle" /\ a.ret = 1)
                /\ Len(INPUT_QUEUE) < MAX_QUEUE_SIZE => a.pc = "enqueue"
           /\ (b.pc = "enqueue" /\ a # b) =>
                /\ a.pc = "idle" /\ a.ret = 0 /\ a.arg = b.arg
                /\ Len(INPUT_QUEUE') = Len(INPUT_QUEUE) + 1
                /\ SubSeq(INPUT_QUEUE', 1, Len(INPUT_QUEUE)) = INPUT_QUEUE
                /\ LET it == INPUT_QUEUE'[Len(INPUT_QUEUE')]
                   IN  /\ it.id = b.arg.id
                       /\ it.length = b.arg.length
                       /\ it.nonce = b.arg.nonce
                       /\ it.data = b.arg.data
                /\ UNCHANGED <<OUTPUT_QUEUE, flags>>
           /\ (a # b /\ a.pc = "idle" /\ a.ret # 0) =>
                UNCHANGED <<INPUT_QUEUE, OUTPUT_QUEUE, flags>>]_vars

\* a push was turned away as full, after the flag and the length let it pass
C1_Witness ==
  \E p \in Producers :
    /\ producer[p].pc = "idle" /\ producer[p].ret = 1
    /\ producer[p].arg.length = MAX_DATA_LENGTH
    /\ Len(INPUT_QUEUE) >= MAX_QUEUE_SIZE
    /\ accepted = MAX_QUEUE_SIZE

(***************************************************************************)
(* C2.  The input queue never holds more than MAX_QUEUE_SIZE items, for    *)
(* any number of producers pushing concurrently with the worker.           *)
(***************************************************************************)
C2_QueueBounded == Len(INPUT_QUEUE) <= MAX_QUEUE_SIZE

(***************************************************************************)
(* C3.  Shutdown: once stop has been requested, and unless a start or a    *)
(* reset clears the request or a solve ends the process, eventually        *)
(* cuckoo_has_processing_stopped returns 1; and a push that tests the flag *)
(* while the request stands returns 4.                                     *)
(***************************************************************************)
C3_Shutdown ==
  /\ [][\A p \in Producers :
          (producer[p].pc = "idle" /\ producer'[p] # producer[p] /\ should_quit) =>
            (producer'[p].pc = "idle" /\ producer'[p].ret = 4)]_vars
  /\ should_quit ~> (cuckoo_has_processing_stopped = 1 \/ ~should_quit \/ ~alive)

\* after a start and an accepted push, stop was requested, a later push got
\* 4, and the worker has finished
C3_Witness ==
  /\ should_quit /\ ~SINGLE_MODE
  /\ accepted > 0
  /\ \E p \in Producers : producer[p].pc = "idle" /\ producer[p].ret = 4
  /\ NoWorker
  /\ cuckoo_has_processing_stopped = 1

(***************************************************************************)
(* C4.  Whenever cuckoo_has_processing_stopped returns 1, no worker thread *)
(* is still inside its loop and no solve is in flight.                     *)
(***************************************************************************)
InLoop == {"while", "ready", "again", "dequeue", "process"}

C4_StoppedMeansIdle ==
  cuckoo_has_processing_stopped = 1 =>
    /\ \A w \in Workers : worker[w].pc \notin InLoop
    /\ solves = <<>>

(***************************************************************************)
(* C5.  Once stop has been requested and not undone, the worker starts no  *)
(* new solve.  Stated in the form that leaves the worker its one test of   *)
(* should_quit: a worker that comes round its inner loop with should_quit  *)
(* already set does not take a further input from the input queue.         *)
(***************************************************************************)
C5_NoDequeueAfterStop ==
  [][\A w \in Workers :
       (worker[w].pc = "dequeue" /\ worker'[w].pc = "process") =>
         ~(worker[w].stale /\ should_quit)]_vars

(***************************************************************************)
(* C6.  When the worker marks processing finished, the input queue and the *)
(* output queue are both empty.                                            *)
(***************************************************************************)
C6_FinishedMeansDrained ==
  [][\A w \in Workers :
       (worker[w].pc = "finish" /\ worker'[w].pc = "none") =>
         (INPUT_QUEUE = <<>> /\ OUTPUT_QUEUE = <<>>)]_vars

(***************************************************************************)
(* C7 as claimed.  cuckoo_read_from_output_queue returns 1 and removes the *)
(* oldest output item, copying it to the caller, whenever the output queue *)
(* is non-empty; it returns 0 only when the output queue is empty, leaving *)
(* the caller's buffers and the queue unchanged.                           *)
(***************************************************************************)
ReadCopied(item) ==
  /\ reader'.ret = 1
  /\ reader'.id = item.id
  /\ reader'.output = item.result_nonces
  /\ reader'.cuckoo_size = item.cuckoo_size
  /\ reader'.nonce = item.nonce

ReadNothing ==
  /\ reader'.ret = 0
  /\ reader'.id = reader.id
  /\ reader'.output = reader.output
  /\ reader'.cuckoo_size = reader.cuckoo_size
  /\ reader'.nonce = reader.nonce
  /\ OUTPUT_QUEUE' = OUTPUT_QUEUE

C7_ReadAsClaimed ==
  [][cuckoo_read_from_output_queue =>
       IF OUTPUT_QUEUE # <<>>
         THEN ReadCopied(Head(OUTPUT_QUEUE)) /\ OUTPUT_QUEUE' = Tail(OUTPUT_QUEUE)
         ELSE ReadNothing]_vars

(***************************************************************************)
(* C7 amended.  The same, with the stop flag: while should_quit is set the *)
(* call returns 0 and changes nothing, whatever the output queue holds;    *)
(* while it is clear the call returns 1 and removes the oldest item when   *)
(* the queue is non-empty and returns 0, changing nothing, when it is      *)
(* empty.                                                                  *)
(***************************************************************************)
C7_ReadContract ==
  [][cuckoo_read_from_output_queue =>
       IF ~should_quit /\ OUTPUT_QUEUE # <<>>
         THEN ReadCopied(Head(OUTPUT_QUEUE)) /\ OUTPUT_QUEUE' = Tail(OUTPUT_QUEUE)
         ELSE ReadNothing]_vars

\* a read has delivered a proof and left a later item in the queue
C7_Witness ==
  /\ reader.ret = 1
  /\ reader.id = 0
  /\ Len(reader.output) = PROOFSIZE
  /\ reader.cuckoo_size = NODEBITS
  /\ OUTPUT_QUEUE # <<>>

(***************************************************************************)
(* C8 as claimed.  With the worker started, after MAX_QUEUE_SIZE pushes    *)
(* have each returned 0, the next push returns 1 in every interleaving     *)
(* with the worker.                                                        *)
(***************************************************************************)
C8_NextPushFull ==
  [][(accepted = MAX_QUEUE_SIZE /\ producer[1].pc = "size" /\ producer'[1].pc # "size") =>
       (producer'[1].pc = "idle" /\ producer'[1].ret = 1)]_vars

(***************************************************************************)
(* C8 amended.  With the worker started, after MAX_QUEUE_SIZE pushes have  *)
(* each returned 0, the next push returns 1 exactly when the worker has    *)
(* taken none of them from the queue by the time the push tests the queue  *)
(* size, and otherwise goes on to enqueue; and whenever the queue is full  *)
(* while the worker runs, cuckoo_is_queue_under_limit eventually returns 1.*)
(***************************************************************************)
C8_BackPressure ==
  /\ [][(accepted = MAX_QUEUE_SIZE /\ producer[1].pc = "size" /\ producer'[1].pc # "size") =>
          IF Len(INPUT_QUEUE) = MAX_QUEUE_SIZE
            THEN producer'[1].pc = "idle" /\ producer'[1].ret = 1
            ELSE producer'[1].pc = "enqueue"]_vars
  /\ (Len(INPUT_QUEUE) >= MAX_QUEUE_SIZE /\ ~NoWorker) ~> (cuckoo_is_queue_under_limit = 1)

\* the push after MAX_QUEUE_SIZE accepted ones was turned away as full, and
\* the worker has since made room
C8_Witness ==
  /\ accepted = MAX_QUEUE_SIZE
  /\ producer[1].pc = "idle" /\ producer[1].ret = 1
  /\ producer[1].arg.id = MAX_QUEUE_SIZE
  /\ ~NoWorker
  /\ cuckoo_is_queue_under_limit = 1

(***************************************************************************)
(* C9.  cuckoo_reset_processing clears the stop flag and leaves            *)
(* processing_finished, internal_processing_finished, is_working, both     *)
(* queues, the worker threads and the solves in flight as they are; and    *)
(* while no worker thread exists, no step other than a start takes an      *)
(* input from the queue to solve it or creates a thread.                   *)
(***************************************************************************)
C9_ResetFrame ==
  [][/\ cuckoo_reset_processing =>
          /\ should_quit' = FALSE
          /\ UNCHANGED <<processing_finished, internal_processing_finished, is_working,
                         INPUT_QUEUE, OUTPUT_QUEUE, worker, solves>>
     /\ (NoWorker /\ ~cuckoo_start_processing) =>
          /\ NoWorker'
          /\ Len(solves') <= Len(solves)
          /\ \/ INPUT_QUEUE' = INPUT_QUEUE
             \/ Len(INPUT_QUEUE') = Len(INPUT_QUEUE) + 1
             \/ cuckoo_clear_queues]_vars

\* a reset after the worker has exited, with an input still queued
C9_Witness ==
  /\ NoWorker
  /\ SINGLE_MODE /\ ~should_quit
  /\ processing_finished
  /\ OUTPUT_QUEUE # <<>>
  /\ INPUT_QUEUE # <<>>

(***************************************************************************)
(* C10.  No solver failure ends the process: whatever the solve of a       *)
(* queued input runs into, the process keeps running.                      *)
(***************************************************************************)
C10_ProcessSurvives == alive


(***************************************************************************)
(* Cycle finder scenario: findcycles takes the words of bucket [0][0] one  *)
(* at a time, in any order and with repetitions, as a trimmed edge list    *)
(* may hold them.                                                          *)
(***************************************************************************)

\* the words of bucket [0][0] over the first FinderNodes names of each side
FinderWords == {u * NYZ2 + v : u \in 0..(FinderNodes - 1), v \in 0..(FinderNodes - 1)}

\* the state variables of the job queue other than alive
queues == <<flags, INPUT_QUEUE, OUTPUT_QUEUE, worker, producer, reader, solves, accepted>>

\* one pass of the loop body of findcycles; linked records the words whose
\* pass wrote the cuckoo table
FindStep(e) ==
  /\ alive
  /\ fc.n < MaxEdges
  /\ LET st2 == FindCyclesEdge(fc.st, 0, 0, e)
     IN  /\ fc' = [st     |-> st2,
                   linked |-> IF st2.cuckoo # fc.st.cuckoo THEN fc.linked \cup {e}
                                                            ELSE fc.linked,
                   n      |-> fc.n + 1]
         /\ alive' = ~st2.exited
  /\ UNCHANGED <<queues, ctx, call, rn, tk>>

NextF == \E e \in FinderWords : FindStep(e)

SpecF == Init /\ [][NextF]_vars


(***************************************************************************)
(* C11.  After any sequence of edges the cycle finder has processed, the   *)
(* cuckoo table is a forest: following it from any node reaches NIL within *)
(* as many steps as the table has entries, so it holds no directed cycle,  *)
(* and every entry other than NIL links a node to one of the other side    *)
(* (the low bits of the two differ).                                       *)
(***************************************************************************)

\* the entry reached from x after k links, NIL once the walk has ended
RECURSIVE Walk(_, _, _)
Walk(C, x, k) ==
  IF x = CUCKOO_NIL \/ k = 0 THEN x ELSE Walk(C, C[x], k - 1)

C11_Forest ==
  LET C == fc.st.cuckoo
  IN  \A x \in DOMAIN C :
        /\ Walk(C, x, CUCKOO_SIZE) = CUCKOO_NIL
        /\ C[x] # CUCKOO_NIL => (C[x] \in DOMAIN C /\ C[x] % 2 # x % 2)

\* a path of three links has been turned around: four edges are linked and
\* some node is three links from its root
C11_Witness ==
  /\ Cardinality(fc.linked) >= 4
  /\ \E x \in DOMAIN fc.st.cuckoo :
       /\ Walk(fc.st.cuckoo, x, 3) # CUCKOO_NIL
       /\ Walk(fc.st.cuckoo, x, 4) = CUCKOO_NIL


(***************************************************************************)
(* C12.  For every sequence of trimmed edges, the cycle finder takes an    *)
(* edge (u0, v0) as closing a cycle exactly when u0 and v0 are already     *)
(* connected through the edges linked before it; the length it computes    *)
(* and prints is the number of edges of the simple cycle that the edge     *)
(* forms with the tree path between u0 and v0; and solution() is called    *)
(* exactly when that length is PROOFSIZE.                                  *)
(***************************************************************************)

\* the two ends of word e of bucket [0][0]
EndU(e) == 2 * (e \div NYZ2)
EndV(e) == 2 * (e % NYZ2) + 1

\* the nodes within k edges of the set of nodes from, in the graph of edges
RECURSIVE Ball(_, _, _)
Ball(edges, from, k) ==
  IF k = 0 THEN from
  ELSE UNION {near \cup {EndV(e) : e \in {d \in edges : EndU(d) \in near}}
                   \cup {EndU(e) : e \in {d \in edges : EndV(d) \in near}} :
              near \in {Ball(edges, from, k - 1)}}

\* the number of edges on the shortest path from a to b in the graph of
\* edges, -1 when none connects them
Dist(edges, a, b) ==
  LET ks == {k \in 0..Cardinality(edges) : b \in Ball(edges, {a}, k)}
  IN  IF ks = {} THEN -1 ELSE CHOOSE k \in ks : \A j \in ks : k <= j

C12_ClosingEdges ==
  [][\A e \in FinderWords :
       FindStep(e) =>
         LET d      == Dist(fc.linked, EndU(e), EndV(e))
             len    == fc'.st.found
             called == Len(fc'.st.uvs) = Len(fc.st.uvs) + 1
         IN  /\ (len # 0) <=> (d >= 0)
             /\ (len # 0) => (len = d + 1)
             /\ called <=> (d + 1 = PROOFSIZE)
             /\ ~called => (fc'.st.uvs = fc.st.uvs)]_vars

\* an edge has closed a cycle of PROOFSIZE edges in a tree that holds a
\* link off the cycle, and solution() was called for it
C12_Witness ==
  /\ fc.st.found = PROOFSIZE
  /\ Len(fc.st.uvs) >= 1
  /\ \E x \in DOMAIN fc.st.cuckoo :
       /\ fc.st.cuckoo[x] # CUCKOO_NIL
       /\ \A i \in 1..PROOFSIZE :
            LET p == fc.st.uvs[Len(fc.st.uvs)][i]
            IN  ~({x, fc.st.cuckoo[x]} = {2 * p.u, 2 * p.v + 1})


(***************************************************************************)
(* C13.  Whenever solution() has been called, the PROOFSIZE (u, v) pairs   *)
(* it recorded are pairwise distinct, each is an edge with u a name of the *)
(* U side and v a name of the V side: the first is the closing edge, which *)
(* is not linked, and the others are linked edges; and together they form  *)
(* one simple cycle of PROOFSIZE edges: every node on them lies on exactly *)
(* two of them and all of them are connected.                              *)
(***************************************************************************)

\* the word of bucket [0][0] that holds the pair p
WordOf(p) == p.u * NYZ2 + p.v

C13_RecordedCycle ==
  \A i \in 1..Len(fc.st.uvs) :
    LET uv    == fc.st.uvs[i]
        words == {WordOf(uv[j]) : j \in 1..Len(uv)}
        nodes == {EndU(w) : w \in words} \cup {EndV(w) : w \in words}
    IN  /\ Len(uv) = PROOFSIZE
        /\ \A j, k \in 1..PROOFSIZE : uv[j] = uv[k] => j = k
        /\ \A j \in 1..PROOFSIZE : uv[j].u \in 0..(NYZ2 - 1) /\ uv[j].v \in 0..(NYZ2 - 1)
        /\ WordOf(uv[1]) \in FinderWords \ fc.linked
        /\ \A j \in 2..PROOFSIZE : WordOf(uv[j]) \in fc.linked
        /\ \A x \in nodes :
             Cardinality({w \in words : x \in {EndU(w), EndV(w)}}) = 2
        /\ Ball(words, {EndU(WordOf(uv[1]))}, PROOFSIZE) = nodes

\* solution() has been called in a graph that holds a link off the cycle,
\* and an edge has been linked since
C13_Witness ==
  /\ Len(fc.st.uvs) >= 1
  /\ Cardinality(fc.linked) >= PROOFSIZE
  /\ fc.st.found = 0


(***************************************************************************)
(* C14.  An edge that closes a cycle leaves the cuckoo table as it was     *)
(* (the closing edge is never linked), and within one solve no cycle of    *)
(* PROOFSIZE edges, taken as a set of edges, is recorded more than once,   *)
(* also when the trimmed edge list holds an edge twice.                    *)
(***************************************************************************)
C14_RecordedOnce ==
  [][/\ \A e \in FinderWords :
          (FindStep(e) /\ fc'.st.found # 0) => fc'.st.cuckoo = fc.st.cuckoo
     /\ \A i, j \in 1..Len(fc'.st.uvs) :
          {fc'.st.uvs[i][k] : k \in 1..PROOFSIZE} = {fc'.st.uvs[j][k] : k \in 1..PROOFSIZE}
            => i = j]_vars


(***************************************************************************)
(* Solve scenarios.  In the first, solver contexts are constructed and one *)
(* context solves job after job (the loop over range in cuckoo_call); in   *)
(* the second, cuckoo_call is called again and again with a buffer that    *)
(* keeps what earlier calls wrote.                                         *)
(***************************************************************************)

\* solver_ctx ctx(tp): a context whose host sol holds the words g
NewSolver(g) ==
  /\ alive
  /\ ctx' = NewCtx(g)
  /\ UNCHANGED <<alive, queues, fc, call, rn, tk>>

\* the bits the shared memory may hold when the recovery kernel starts
StaleMaps == {{}, 0..(NX * NX - 1)}

\* ctx.setheadergrin(header_data, header_length); ctx.solve(): the next job
\* of the context, the shared memory of the device holding the bits stale
SolveJob(h, sched, stale) ==
  /\ alive
  /\ ctx' = [solve(setheadergrin([ctx EXCEPT !.uxymap = stale], h), sched)
              EXCEPT !.prev = ctx.sols]
  /\ alive' = ~ctx'.exited
  /\ UNCHANGED <<queues, fc, call, rn, tk>>

\* cuckoo_call(header_data, header_length, sol_nonces) in a process whose
\* new context gets the words g as its host sol
Call(h, sched, g) ==
  /\ alive
  /\ LET r == cuckoo_call(h, sched, g)
     IN  /\ call' = [header |-> h, sched |-> sched, hsol |-> g, exited |-> r.exited,
                     ret |-> r.ret, pow_rc |-> r.pow_rc,
                     out_nonces |-> IF r.sol_nonces # <<>> THEN r.sol_nonces
                                                          ELSE call.out_nonces]
         /\ alive' = ~r.exited
  /\ UNCHANGED <<queues, fc, ctx, rn, tk>>

NextV ==
  \/ \E g \in Garbage : NewSolver(g)
  \/ \E h \in AllHeaders, sched \in Scheds, stale \in StaleMaps : SolveJob(h, sched, stale)

SpecV == Init /\ [][NextV]_vars

NextC == \E h \in AllHeaders, sched \in Scheds, g \in Garbage : Call(h, sched, g)

SpecC == Init /\ [][NextC]_vars


(***************************************************************************)
(* C15.  Every proof that solution() has appended to sols consists of      *)
(* PROOFSIZE edge nonces, each in 0..NEDGES-1, in strictly ascending order *)
(* and so pairwise distinct.                                               *)
(***************************************************************************)
C15_ProofsAscending ==
  \A i \in 1..Len(ctx.sols) :
    /\ Len(ctx.sols[i]) = PROOFSIZE
    /\ \A j \in 1..PROOFSIZE : ctx.sols[i][j] \in 0..(NEDGES - 1)
    /\ \A j \in 1..(PROOFSIZE - 1) : ctx.sols[i][j] < ctx.sols[i][j + 1]

(***************************************************************************)
(* C16.  If hashing every nonce again leaves a slot of a recorded cycle    *)
(* unfilled (no nonce has that edge's pair of endpoints), the proof is     *)
(* rejected: it is not added to sols, and cuckoo_call does not return it.  *)
(***************************************************************************)

\* some nonce hashes to the endpoints of each of the recorded pairs uv
AllFilled(keys, uv) ==
  LET nodes == recoveredges(uv)
  IN  \A j \in 1..Len(uv) :
        \E nce \in 0..(NEDGES - 1) :
          dipnode(keys, nce, 0) = nodes[j].u /\ dipnode(keys, nce, 1) = nodes[j].v

C16_UnfilledRejected ==
  (call # NoCall /\ ~call.exited) =>
    LET c == solve(setheadergrin(NewCtx(call.hsol), call.header), call.sched)
    IN  /\ Len(c.sols) = Cardinality({i \in 1..Len(c.uvs) : AllFilled(c.keys, c.uvs[i])})
        /\ call.ret = 1 => AllFilled(c.keys, c.uvs[1])


C18_CallResult ==
  [][\A h \in AllHeaders, sched \in Scheds, g \in Garbage :
       (/\ <<call'.header, call'.sched, call'.hsol>> = <<h, sched, g>>
        /\ Call(h, sched, g)
        /\ ~call'.exited) =>
         LET c == solve(setheadergrin(NewCtx(g), h), sched)
         IN  /\ call'.ret \in {0, 1}
             /\ (call'.ret = 1) <=> (Len(c.sols) >= 1)
             /\ (call'.ret = 1) =>
                  /\ call'.out_nonces = c.sols[1]
                  /\ Len(call'.out_nonces) = PROOFSIZE
             /\ (call'.ret = 0) => (call'.out_nonces = call.out_nonces)]_vars

\* a call has returned 1 and written its proof, and a later call has
\* returned 0 and left that proof in the buffer
C18_Witness ==
  /\ call.ret = 0
  /\ Len(call.out_nonces) = PROOFSIZE


(***************************************************************************)
(* C19.  A proof that the verifier rejects is reported to the caller as a  *)
(* failure: cuckoo_call never returns 1 for a proof whose verify() result  *)
(* is not POW_OK.                                                          *)
(***************************************************************************)
C19_RejectedNotReturned ==
  (call.ret = 1) => (call.pow_rc = "POW_OK")


(***************************************************************************)
(* Rename scenario: the records of one column vx pass through trimrename2  *)
(* (partition by partition, names keyed by Z) and trimrename3 (names keyed *)
(* by the name of the first round), each run by blockDim threads whose     *)
(* atomicCAS on names[] may interleave in any order.  A record is          *)
(* [ux, vy, vz]; n1 and n2 are the names the two rounds gave it (NONAME    *)
(* while it has none).                                                     *)
(***************************************************************************)

\* Y and Z values of the records of the scenario
RenameYs == {0, 1}
RenameZs == {0, 1}

\* vy << ZBITS | vz
YZOf(r) == r.vy * NZ + r.vz

\* the record lists of the scenario: record i lies in bucket ux = (i-1) % NX
RenameInputs ==
  {[i \in 1..RenameRecords |-> [ux |-> (i - 1) % NX, vy |-> v[i][1], vz |-> v[i][2]]] :
     v \in [1..RenameRecords -> RenameYs \X RenameZs]}

\* nrenames += blockDim.x
NextName(nrenames) == nrenames + blockDim

\* recoveredges: a name of the second round looked up in renamev1, and the
\* result in renamev
RenamedBack(r, vdeg) == r.renamev[r.renamev1[vdeg]]

\* the records of partition vy, in bucket order
Partition(recs, vy) == SelectSeq([i \in 1..Len(recs) |-> i], LAMBDA i : recs[i].vy = vy)

\* trimrename2: the records thread t reads in partition vy
\* (readsmall += SRCSIZE * threadIdx.x; rdsmall += SRCSIZE * blockDim.x)
Reads2(recs, vy, t) ==
  LET p == Partition(recs, vy)
  IN  {p[k] : k \in {j \in 1..Len(p) : (j - 1) % blockDim = t}}

\* degs.test(vz) after every record of the partition was set
Twice2(recs, i) ==
  Cardinality({k \in 1..Len(recs) : recs[k].vy = recs[i].vy /\ recs[k].vz = recs[i].vz}) >= 2

\* a next partition that finds names[] as the last one left it
NextPartitionKeepingNames(r) == [r EXCEPT !.vy = @ + 1]

\* trimrename2, the head of the loop over vy: names[z] = NONAME for every z
NextPartition(r) == [r EXCEPT !.vy = @ + 1, !.names = [z \in RenameZs |-> NONAME]]

\* the kernels are launched on the records recs
LoadRecords(recs) ==
  /\ alive
  /\ rn.phase = "idle"
  /\ rn' = [rn EXCEPT !.phase = "r2", !.recs = recs,
                      !.names = [z \in RenameZs |-> NONAME],
                      !.n1 = [i \in 1..Len(recs) |-> NONAME],
                      !.n2 = [i \in 1..Len(recs) |-> NONAME]]
  /\ UNCHANGED <<alive, queues, fc, ctx, call, tk>>

\* trimrename2, thread t, its next record of partition vy:
\* atomicCAS(&names[vz], NONAME, nrenames); the winner writes the table
trimrename2(t) ==
  /\ alive
  /\ rn.phase = "r2"
  /\ LET mine == Reads2(rn.recs, rn.vy, t) \ rn.done
     IN  /\ mine # {}
         /\ LET i    == CHOOSE k \in mine : \A m \in mine : k <= m
                vz   == rn.recs[i].vz
                vdeg == rn.names[vz]
                new  == rn.nrenames[t]
            IN  rn' =
                  IF ~Twice2(rn.recs, i) THEN [rn EXCEPT !.done = @ \cup {i}]
                  ELSE IF vdeg = NONAME THEN
                    [rn EXCEPT !.done = @ \cup {i},
                               !.names[vz] = new,
                               !.n1[i] = new,
                               !.renamev = IF new \in DOMAIN @
                                             THEN [@ EXCEPT ![new] = YZOf(rn.recs[i])]
                                             ELSE @,
                               !.stray = IF new \in DOMAIN rn.renamev THEN @ ELSE @ \cup {new},
                               !.nrenames[t] = NextName(new)]
                  ELSE [rn EXCEPT !.done = @ \cup {i}, !.n1[i] = vdeg]
  /\ UNCHANGED <<alive, queues, fc, ctx, call, tk>>

\* trimrename2: __syncthreads() at the end of a partition; names is reset
\* for the next one, and after the last one assert(maxrename < NYZ1) ends
\* the kernel
trimrename2_sync ==
  /\ alive
  /\ rn.phase = "r2"
  /\ \A t \in Threads : Reads2(rn.recs, rn.vy, t) \subseteq rn.done
  /\ rn' = IF rn.vy + 1 \in RenameYs
             THEN NextPartition(rn)
           ELSE IF \E t \in Threads : rn.nrenames[t] >= NYZ1
             THEN [rn EXCEPT !.phase = "failed"]
           ELSE [rn EXCEPT !.phase = "r3", !.done = {},
                           !.names = [z \in 0..(NYZ1 - 1) |-> NONAME],
                           !.nrenames = [t \in Threads |-> t]]
  /\ UNCHANGED <<alive, queues, fc, ctx, call, tk>>

\* trimrename3: the records left in the buckets thread t reads
\* (for (ux = threadIdx.x; ux < NX; ux += blockDim.x))
Reads3(r, t) ==
  {i \in 1..Len(r.recs) : r.n1[i] # NONAME /\ r.recs[i].ux % blockDim = t}

\* degs.test(vyz) after every record of the column was set
Twice3(r, i) ==
  Cardinality({k \in 1..Len(r.recs) : r.n1[k] = r.n1[i]}) >= 2

\* trimrename3, thread t, its next record: the buckets in the order of ux,
\* the records of a bucket in the order the first round happened to write
\* them
trimrename3(t) ==
  /\ alive
  /\ rn.phase = "r3"
  /\ LET mine == Reads3(rn, t) \ rn.done
     IN  /\ mine # {}
         /\ \E i \in mine :
              /\ \A m \in mine : rn.recs[i].ux <= rn.recs[m].ux
              /\ LET vyz  == rn.n1[i]
                     vdeg == rn.names[vyz]
                     new  == rn.nrenames[t]
                 IN  rn' =
                       IF ~Twice3(rn, i) THEN [rn EXCEPT !.done = @ \cup {i}]
                       ELSE IF vdeg = NONAME THEN
                         [rn EXCEPT !.done = @ \cup {i},
                                    !.names[vyz] = new,
                                    !.n2[i] = new,
                                    !.renamev1 = IF new \in DOMAIN @
                                                   THEN [@ EXCEPT ![new] = vyz]
                                                   ELSE @,
                                    !.stray = IF new \in DOMAIN rn.renamev1 THEN @ ELSE @ \cup {new},
                                    !.nrenames[t] = NextName(new)]
                       ELSE [rn EXCEPT !.done = @ \cup {i}, !.n2[i] = vdeg]
  /\ UNCHANGED <<alive, queues, fc, ctx, call, tk>>

\* trimrename3: every thread is through its buckets; assert(maxrename < NYZ2)
trimrename3_end ==
  /\ alive
  /\ rn.phase = "r3"
  /\ \A t \in Threads : Reads3(rn, t) \subseteq rn.done
  /\ rn' = IF \E t \in Threads : rn.nrenames[t] >= NYZ2
             THEN [rn EXCEPT !.phase = "failed"]
             ELSE [rn EXCEPT !.phase = "done"]
  /\ UNCHANGED <<alive, queues, fc, ctx, call, tk>>

NextR ==
  \/ \E recs \in RenameInputs : LoadRecords(recs)
  \/ \E t \in Threads : trimrename2(t)
  \/ trimrename2_sync
  \/ \E t \in Threads : trimrename3(t)
  \/ trimrename3_end

SpecR == Init /\ [][NextR]_vars


(***************************************************************************)
(* C20.  Renaming is injective and invertible under every interleaving of  *)
(* the threads: within a round and a column, two records get the same new  *)
(* name exactly when they carry the same value on the renamed side (the    *)
(* (Y,Z) value in the first round, the first round's name in the second),  *)
(* and once both kernels have ended, looking a final name up in the table  *)
(* of the second round and the result in the table of the first, as        *)
(* recoveredges does, gives the (Y,Z) value the record started with.       *)
(***************************************************************************)
C20_RenameInvertible ==
  LET named1 == {i \in 1..Len(rn.recs) : rn.n1[i] # NONAME}
      named2 == {i \in 1..Len(rn.recs) : rn.n2[i] # NONAME}
  IN  /\ rn.phase \in {"r2", "r3", "done"} =>
           \A i, k \in named1 :
             (rn.n1[i] = rn.n1[k]) <=> (YZOf(rn.recs[i]) = YZOf(rn.recs[k]))
      /\ rn.phase \in {"r3", "done"} =>
           /\ \A i \in named1 : rn.renamev[rn.n1[i]] = YZOf(rn.recs[i])
           /\ \A i, k \in named2 : (rn.n2[i] = rn.n2[k]) <=> (rn.n1[i] = rn.n1[k])
      /\ rn.phase = "done" =>
           \A i \in named2 : RenamedBack(rn, rn.n2[i]) = YZOf(rn.recs[i])

\* both kernels have ended; two values were renamed, in two partitions, and
\* the records of one value lay in buckets read by different threads
C20_Witness ==
  /\ rn.phase = "done"
  /\ \E i, k \in 1..Len(rn.recs) :
       /\ rn.n2[i] # NONAME /\ rn.n2[k] # NONAME
       /\ rn.n2[i] # rn.n2[k]
       /\ rn.recs[i].vy # rn.recs[k].vy
  /\ \E i, k \in 1..Len(rn.recs) :
       /\ rn.n2[i] # NONAME
       /\ rn.n2[i] = rn.n2[k]
       /\ rn.recs[i].ux % blockDim # rn.recs[k].ux % blockDim


(***************************************************************************)
(* Degree scenario: the threads of one block reset a twice_set, meet at    *)
(* the barrier, and call set() concurrently.                               *)
(***************************************************************************)

\* the indices set() is called with: two that share a word, the first of
\* the next word and the last index
TwiceNodes == {0, 1, U32Bits \div 2, TwiceSize - 1}

\* what the shared memory of the block holds before reset()
TwiceGarbage == {{}, 0..(U32Bits - 1)}

\* node_t idx = u/16
TwiceIdx(u) == u \div (U32Bits \div 2)

\* the position of bit = 1 << (2 * (u%16)); bit2 = bit<<1 is the next one
TwiceBit(u) == 2 * (u % (U32Bits \div 2))

\* the second atomicOr is never made
SecondNever(old, u) == FALSE

\* (old & (bit2|bit)) == bit
SecondNeeded(old, u) == TwiceBit(u) \in old /\ (TwiceBit(u) + 1) \notin old

\* test(u) reading the low bit of the pair
TestLow(bits, u) == IF TwiceBit(u) \in bits[TwiceIdx(u)] THEN 2 ELSE 0

\* test(u): (bits[u/16] >> (2 * (u%16))) & 2
test(bits, u) == IF (TwiceBit(u) + 1) \in bits[TwiceIdx(u)] THEN 2 ELSE 0

\* the kernel is launched: the shared twice_set holds what the memory held
TwiceLaunch(g) ==
  /\ tk.ts.phase = "off"
  /\ tk' = [tk EXCEPT !.ts = [NoTwice EXCEPT
                                !.phase = "reset",
                                !.bits = [b \in 0..(TWICE_WORDS - 1) |-> g],
                                !.thr = [t \in Threads |-> [pc |-> "reset", u |-> 0, old |-> {}]]]]
  /\ UNCHANGED <<alive, queues, fc, ctx, call, rn>>

\* reset() by thread t: for (b = threadIdx.x; b < TWICE_WORDS; b += blockDim.x)
\* bits[b] = 0; the thread then waits in __syncthreads()
TwiceReset(t) ==
  /\ tk.ts.thr[t].pc = "reset"
  /\ tk' = [tk EXCEPT !.ts.bits = [b \in 0..(TWICE_WORDS - 1) |->
                                     IF b % blockDim = t THEN {} ELSE tk.ts.bits[b]],
                      !.ts.thr[t].pc = "sync"]
  /\ UNCHANGED <<alive, queues, fc, ctx, call, rn>>

\* __syncthreads(): every thread of the block has arrived
TwiceSync ==
  /\ \A t \in Threads : tk.ts.thr[t].pc = "sync"
  /\ tk' = [tk EXCEPT !.ts.phase = "set",
                      !.ts.thr = [t \in Threads |-> [pc |-> "idle", u |-> 0, old |-> {}]]]
  /\ UNCHANGED <<alive, queues, fc, ctx, call, rn>>

\* set(u) by thread t, up to its first atomicOr: old = atomicOr(&bits[idx], bit)
TwiceSet1(t, u) ==
  /\ tk.ts.thr[t].pc = "idle"
  /\ tk.ts.calls[0] + tk.ts.calls[1] + tk.ts.calls[U32Bits \div 2]
       + tk.ts.calls[TwiceSize - 1] < MaxSets
  /\ tk' = [tk EXCEPT !.ts.bits[TwiceIdx(u)] = @ \cup {TwiceBit(u)},
                      !.ts.thr[t] = [pc |-> "or2", u |-> u, old |-> tk.ts.bits[TwiceIdx(u)]],
                      !.ts.calls[u] = @ + 1]
  /\ UNCHANGED <<alive, queues, fc, ctx, call, rn>>

\* the rest of set(u): if ((old & (bit2|bit)) == bit) atomicOr(&bits[idx], bit2)
TwiceSet2(t) ==
  /\ tk.ts.thr[t].pc = "or2"
  /\ tk' = [tk EXCEPT !.ts.bits[TwiceIdx(tk.ts.thr[t].u)] =
                          IF SecondNeeded(tk.ts.thr[t].old, tk.ts.thr[t].u)
                            THEN @ \cup {TwiceBit(tk.ts.thr[t].u) + 1} ELSE @,
                      !.ts.thr[t] = [pc |-> "idle", u |-> 0, old |-> {}]]
  /\ UNCHANGED <<alive, queues, fc, ctx, call, rn>>

NextT ==
  \/ \E g \in TwiceGarbage : TwiceLaunch(g)
  \/ \E t \in Threads : TwiceReset(t)
  \/ TwiceSync
  \/ \E t \in Threads, u \in TwiceNodes : TwiceSet1(t, u)
  \/ \E t \in Threads : TwiceSet2(t)

SpecT == Init /\ [][NextT]_vars

(***************************************************************************)
(* C24.  After reset() and any interleaving of concurrent calls of set(u)  *)
(* by the threads of a block, once every call has completed test(u) is     *)
(* non-zero exactly for the indices u that set() was called with at least  *)
(* twice, whatever calls were made for the other indices of the same word. *)
(***************************************************************************)
C24_TwiceExact ==
  (tk.ts.phase = "set" /\ \A t \in Threads : tk.ts.thr[t].pc = "idle") =>
    \A u \in 0..(TwiceSize - 1) : (test(tk.ts.bits, u) # 0) <=> (tk.ts.calls[u] >= 2)

\* every call has completed; 0 was set twice or more and so tests non-zero,
\* while 1, in the same word, was set once and tests zero
C24_Witness ==
  /\ tk.ts.phase = "set"
  /\ \A t \in Threads : tk.ts.thr[t].pc = "idle"
  /\ tk.ts.calls[0] >= 2 /\ tk.ts.calls[1] = 1
  /\ test(tk.ts.bits, 0) # 0 /\ test(tk.ts.bits, 1) = 0


(***************************************************************************)
(* Indexer scenario: the threads of one block write records into the       *)
(* buckets of one row through an indexer and store the sizes.              *)
(***************************************************************************)

\* the bytes [idx, idx + SIZE) of a reservation
RangeOf(r) == r.idx..(r.idx + SlotBytes - 1)

\* the arena of bucket k: bytes[BUCKETSIZE]
Arena(k) == BytesAt(k)..(BytesAt(k) + BUCKETSIZE - 1)

\* matrixu(x) and the barrier after it: index[y] = buckets[x][y].bytes - (u8 *)buckets
IxLaunch ==
  /\ tk.ix.phase = "off"
  /\ tk' = [tk EXCEPT !.ix.phase = "write",
                      !.ix.index = [k \in 0..(IxBuckets - 1) |-> BytesAt(k)],
                      !.ix.thr = [t \in Threads |-> [pc |-> "idle", w |-> 0]]]
  /\ UNCHANGED <<alive, queues, fc, ctx, call, rn>>

\* record w written without a reservation of its own, over the last one
ReserveNothing(t, i) ==
  /\ tk.ix.phase = "write"
  /\ tk.ix.thr[t].pc = "idle"
  /\ Len(tk.ix.res) < MaxWrites
  /\ tk' = [tk EXCEPT !.ix.res = Append(@, [i |-> i, idx |-> IF tk.ix.index[i] > BytesAt(i)
                                                                THEN tk.ix.index[i] - SlotBytes
                                                                ELSE tk.ix.index[i]]),
                      !.ix.index[i] = IF @ > BytesAt(i) THEN @ ELSE @ + SlotBytes,
                      !.ix.thr[t] = [pc |-> "copy", w |-> Len(tk.ix.res) + 1]]
  /\ UNCHANGED <<alive, queues, fc, ctx, call, rn>>

\* writebig<SIZE>(i, x) / write32(i, x) by thread t, up to
\* idx = atomicAdd(index+i, SIZE)
IxReserve(t, i) ==
  /\ tk.ix.phase = "write"
  /\ tk.ix.thr[t].pc = "idle"
  /\ Len(tk.ix.res) < MaxWrites
  /\ tk' = [tk EXCEPT !.ix.res = Append(@, [i |-> i, idx |-> tk.ix.index[i]]),
                      !.ix.index[i] = @ + SlotBytes,
                      !.ix.thr[t] = [pc |-> "copy", w |-> Len(tk.ix.res) + 1]]
  /\ UNCHANGED <<alive, queues, fc, ctx, call, rn>>

\* the rest of the write: memcpy((u8 *)buckets + idx, (u8 *)&x, SIZE)
IxCopy(t) ==
  /\ tk.ix.thr[t].pc = "copy"
  /\ tk' = [tk EXCEPT !.ix.mem = [a \in 0..(MemBytes - 1) |->
                                    IF a \in RangeOf(tk.ix.res[tk.ix.thr[t].w])
                                      THEN <<tk.ix.thr[t].w, a - tk.ix.res[tk.ix.thr[t].w].idx>>
                                      ELSE tk.ix.mem[a]],
                      !.ix.thr[t] = [pc |-> "idle", w |-> 0]]
  /\ UNCHANGED <<alive, queues, fc, ctx, call, rn>>

\* the size that setsize computes for bucket k: end - bytes
EndSize(k) == tk.ix.index[k] - BytesAt(k)

\* the barrier and storeu(x): buckets[x][y].setsize((u8 *)buckets + index[y])
\* for every y, size = end - bytes; assert(size <= BUCKETSIZE) ends the
\* kernel when it fails
IxStore ==
  /\ tk.ix.phase = "write"
  /\ \A t \in Threads : tk.ix.thr[t].pc = "idle"
  /\ tk' = [tk EXCEPT !.ix.mem = [a \in 0..(MemBytes - 1) |->
                                    IF a \div ZBucketBytes < IxBuckets /\ a % ZBucketBytes < U32Bytes
                                      THEN <<"size", EndSize(a \div ZBucketBytes), a % ZBucketBytes>>
                                      ELSE tk.ix.mem[a]],
                      !.ix.phase = IF \A k \in 0..(IxBuckets - 1) : EndSize(k) <= BUCKETSIZE
                                     THEN "stored" ELSE "aborted"]
  /\ UNCHANGED <<alive, queues, fc, ctx, call, rn>>

NextI ==
  \/ IxLaunch
  \/ \E t \in Threads, i \in 0..(IxBuckets - 1) : IxReserve(t, i)
  \/ \E t \in Threads : IxCopy(t)
  \/ IxStore

SpecI == Init /\ [][NextI]_vars

\* the size field of bucket k as it reads in memory, -1 when its bytes are
\* not those of one stored size
SizeRead(k) ==
  IF \E v \in 0..MemBytes : \A j \in 0..(U32Bytes - 1) :
       tk.ix.mem[k * ZBucketBytes + j] = <<"size", v, j>>
    THEN CHOOSE v \in 0..MemBytes : \A j \in 0..(U32Bytes - 1) :
           tk.ix.mem[k * ZBucketBytes + j] = <<"size", v, j>>
    ELSE -1

\* the records addressed to bucket k
WritesTo(k) == {w \in 1..Len(tk.ix.res) : tk.ix.res[w].i = k}

\* slot n of bucket k holds record w whole
SlotHolds(k, n, w) ==
  \A j \in 0..(SlotBytes - 1) : tk.ix.mem[BytesAt(k) + n * SlotBytes + j] = <<w, j>>

(***************************************************************************)
(* C25.  Writes through an indexer reserve pairwise disjoint byte ranges,  *)
(* whatever the interleaving; when the sizes have been stored, the size    *)
(* of every bucket is the slot width times the number of writes addressed  *)
(* to it, and its slots hold exactly those records, each whole.            *)
(***************************************************************************)
C25_DisjointWrites ==
  /\ \A w1, w2 \in 1..Len(tk.ix.res) :
       w1 # w2 => RangeOf(tk.ix.res[w1]) \cap RangeOf(tk.ix.res[w2]) = {}
  /\ tk.ix.phase = "stored" =>
       \A k \in 0..(IxBuckets - 1) :
         /\ SizeRead(k) = SlotBytes * Cardinality(WritesTo(k))
         /\ \A w \in WritesTo(k) : \E n \in 0..(Cardinality(WritesTo(k)) - 1) : SlotHolds(k, n, w)

\* two records addressed to bucket 0 were reserved by both threads before
\* either was copied, and the sizes are stored
C25_Witness ==
  /\ tk.ix.phase = "stored"
  /\ Cardinality(WritesTo(0)) = 2
  /\ SlotHolds(0, 0, 1) /\ SlotHolds(0, 1, 2)



\* record w has been copied to memory
Copied(w) == \A t \in Threads : tk.ix.thr[t].w # w

(***************************************************************************)
(* C23.  When the sizes are stored every bucket's size is at most its      *)
(* capacity, and no byte of a record is ever written outside the arena of  *)
(* the bucket the record was addressed to: a bucket that would exceed its  *)
(* capacity is detected before any byte lands beyond the arena.            *)
(***************************************************************************)
C23_NoByteBeyondArena ==
  /\ tk.ix.phase = "stored" => \A k \in 0..(IxBuckets - 1) : SizeRead(k) <= BUCKETSIZE
  /\ \A w \in 1..Len(tk.ix.res) :
       Copied(w) => RangeOf(tk.ix.res[w]) \subseteq Arena(tk.ix.res[w].i)

(***************************************************************************)
(* Delta decoding: a thread of genVnodes1, genVnodes2, trimedges1 or       *)
(* trimedges2 rebuilds a value (edge nonce, UYZ, UX) of each record it     *)
(* reads from the prefix bits kept in the record and the value of the      *)
(* record it read before, and tests the last value at the end of the       *)
(* bucket.                                                                 *)
(***************************************************************************)

\* NNONYZ - 1, NONDEGMASK, SRCPREFMASK, DSTPREFMASK: the mask of the prefix bits
PrefMask == 2 ^ PrefBits - 1

\* the values a bucket's records are made from have one bit more than the
\* records keep (YZBITS against NONYZBITS, XBITS against DSTPREFBITS)
RangeBits == PrefBits + 1

\* const u32 lag = NNONYZ >> 2 (genVnodes1), NONDEGMASK >> 2 (genVnodes2),
\* SRCPREFMASK >> 2 (trimedges1), DSTPREFMASK >> 2 (trimedges2)
LagOf(kernel) == IF kernel = "genVnodes1" THEN (PrefMask + 1) \div 4 ELSE PrefMask \div 4

\* the update without the lag: the prefix bits replace those of edge
NoLagUpdate(edge, stored, lag) ==
  (edge + (((stored - edge) % (2 ^ WordBits)) % (PrefMask + 1))) % (2 ^ WordBits)

\* edge += (((u32)(e >> YZBITS) - edge + lag) & mask) - lag, in words of
\* WordBits bits
DeltaUpdate(edge, stored, lag) ==
  (edge + (((stored - edge + lag) % (2 ^ WordBits)) % (PrefMask + 1)) - lag) % (2 ^ WordBits)

\* the kernel starts a bucket: u32 edge = my << YZBITS (genVnodes1),
\* edge = 0, uyz = 0, ux = 0 (the others)
DeltaStart(kernel, my) ==
  /\ tk.dd.kernel = "none"
  /\ kernel # "genVnodes1" => my = 0
  /\ tk' = [tk EXCEPT !.dd = [NoDelta EXCEPT !.kernel = kernel, !.my = my,
                                             !.edge = my * (2 ^ RangeBits)]]
  /\ UNCHANGED <<alive, queues, fc, ctx, call, rn>>

\* the thread reads the next record of its stride, made from the value x:
\* the record holds the low PrefBits bits of x.  trimedges1 then clears the
\* Z bits of its running value (uyz &= ~ZMASK; Z has one bit here).
DeltaRead(x) ==
  /\ tk.dd.kernel # "none"
  /\ tk.dd.ended = "no"
  /\ tk' = [tk EXCEPT !.dd.got = DeltaUpdate(tk.dd.edge, x % (2 ^ PrefBits), LagOf(tk.dd.kernel)),
                      !.dd.edge = IF tk.dd.kernel = "trimedges1"
                                    THEN 2 * (DeltaUpdate(tk.dd.edge, x % (2 ^ PrefBits), LagOf(tk.dd.kernel)) \div 2)
                                    ELSE DeltaUpdate(tk.dd.edge, x % (2 ^ PrefBits), LagOf(tk.dd.kernel)),
                      !.dd.cur = tk.dd.edge,
                      !.dd.x = x]
  /\ UNCHANGED <<alive, queues, fc, ctx, call, rn>>

\* the test at the end of the bucket's loop, TRUE when the diagnostic is
\* printed: edge >> NONYZBITS != (((my+1) << YZBITS) - 1) >> NONYZBITS,
\* edge >> NONDEGBITS != EDGEMASK >> NONDEGBITS, uyz >> ZBITS >= NY,
\* ux >> DSTPREFBITS != XMASK >> DSTPREFBITS
Oops(kernel, my, edge) ==
  IF kernel = "trimedges1" THEN edge \div 2 >= (2 ^ RangeBits) \div 2
  ELSE edge \div (2 ^ PrefBits) # ((my + 1) * (2 ^ RangeBits) - 1) \div (2 ^ PrefBits)

\* what follows the diagnostic: assert(0) after OOPS1 and OOPS2, break after
\* OOPS3 (the loop over the buckets is left, the sizes are stored and the
\* kernel returns), nothing after OOPS4 (the loop goes on)
AfterOops(kernel) ==
  IF kernel \in {"genVnodes1", "genVnodes2"} THEN "abort"
  ELSE IF kernel = "trimedges1" THEN "break" ELSE "next"

\* every diagnostic followed by assert(0)
AlwaysAbort(kernel) == "abort"

\* the end of the loop over the bucket's records
DeltaEnd ==
  /\ tk.dd.kernel # "none"
  /\ tk.dd.ended = "no"
  /\ tk' = [tk EXCEPT !.dd.oops = Oops(tk.dd.kernel, tk.dd.my, tk.dd.edge),
                      !.dd.ended = IF Oops(tk.dd.kernel, tk.dd.my, tk.dd.edge)
                                     THEN AfterOops(tk.dd.kernel) ELSE "next"]
  /\ UNCHANGED <<alive, queues, fc, ctx, call, rn>>

\* the kernel goes on with another bucket, or returns and the host launches
\* the next kernel
DeltaContinue ==
  /\ tk.dd.ended \in {"next", "break"}
  /\ tk' = [tk EXCEPT !.dd = NoDelta]
  /\ UNCHANGED <<alive, queues, fc, ctx, call, rn>>

NextD ==
  \/ \E kernel \in {"genVnodes1", "genVnodes2", "trimedges1", "trimedges2"}, my \in 0..1 :
       DeltaStart(kernel, my)
  \/ \E x \in 0..(2 * (2 ^ RangeBits) - 1) : DeltaRead(x)
  \/ DeltaEnd
  \/ DeltaContinue

SpecD == Init /\ [][NextD]_vars

(***************************************************************************)
(* C28.  The delta update, in unsigned words and with lag = mask >> 2,     *)
(* recovers the value x a record was made from whenever                    *)
(* -lag <= x - cur < 2^PrefBits - lag, cur being the running value before  *)
(* the record was read.                                                    *)
(***************************************************************************)
C28_DeltaRoundTrip ==
  (/\ tk.dd.cur >= 0
   /\ - (PrefMask \div 4) <= tk.dd.x - tk.dd.cur
   /\ tk.dd.x - tk.dd.cur < (2 ^ PrefBits) - (PrefMask \div 4)) => tk.dd.got = tk.dd.x

\* C28 as amended: the window is that of the lag the kernel uses, which in
\* genVnodes1 is (mask + 1) >> 2
C28_KernelLag ==
  (/\ tk.dd.cur >= 0
   /\ - LagOf(tk.dd.kernel) <= tk.dd.x - tk.dd.cur
   /\ tk.dd.x - tk.dd.cur < (2 ^ PrefBits) - LagOf(tk.dd.kernel)) => tk.dd.got = tk.dd.x

\* genVnodes1 has read a record whose value lies lag below the running
\* value, across a multiple of 2^PrefBits, and recovered it
C28_Witness ==
  /\ tk.dd.kernel = "genVnodes1"
  /\ tk.dd.cur > (2 ^ PrefBits)
  /\ tk.dd.x = tk.dd.cur - LagOf("genVnodes1")
  /\ tk.dd.x \div (2 ^ PrefBits) # tk.dd.cur \div (2 ^ PrefBits)
  /\ tk.dd.got = tk.dd.x

(***************************************************************************)
(* C21.  A failed sanity check of the delta decoding is fatal: when the    *)
(* OOPS diagnostic is printed the kernel is aborted; the trimming does not *)
(* go on with the bucket's edges dropped or left in place.                 *)
(***************************************************************************)
C21_FailuresFatal == tk.dd.oops => tk.dd.ended = "abort"



(***************************************************************************)
(* The rename kernels on a column with more nodes than one thread has      *)
(* names for.                                                              *)
(***************************************************************************)

\* records in pairs on one node each, one pair more than the names below
\* NYZ2 that a thread can give (threadIdx.x, threadIdx.x + blockDim.x, ...);
\* the first record of each pair lies in a bucket that thread 0 reads
ManyNodes ==
  [i \in 1..(2 * (NYZ2 \div blockDim + 1)) |->
     [ux |-> (i - 1) % blockDim,
      vy |-> ((i - 1) \div 2) % Cardinality(RenameYs),
      vz |-> ((i - 1) \div 2) \div Cardinality(RenameYs)]]

\* the kernels are launched on the records of ManyNodes
LoadManyNodes ==
  /\ alive
  /\ rn.phase = "idle"
  /\ rn' = [rn EXCEPT !.phase = "r2", !.recs = ManyNodes,
                      !.names = [z \in RenameZs |-> NONAME],
                      !.n1 = [i \in 1..Len(ManyNodes) |-> NONAME],
                      !.n2 = [i \in 1..Len(ManyNodes) |-> NONAME]]
  /\ UNCHANGED <<alive, queues, fc, ctx, call, tk>>

NextN ==
  \/ LoadManyNodes
  \/ \E t \in Threads : trimrename2(t)
  \/ trimrename2_sync
  \/ \E t \in Threads : trimrename3(t)
  \/ trimrename3_end

SpecN == Init /\ [][NextN]_vars

(***************************************************************************)
(* C22.  Name-table exhaustion is caught before it does damage: no name    *)
(* >= NYZ1 of the first compression round and no name >= NYZ2 of the       *)
(* second is written into an edge record or used to index a rename table:  *)
(* every rename-table write lands inside the table.                        *)
(***************************************************************************)
C22_NamesInRange ==
  /\ \A i \in 1..Len(rn.n1) : rn.n1[i] < NYZ1
  /\ \A i \in 1..Len(rn.n2) : rn.n2[i] < NYZ2
  /\ rn.stray = {}



(***************************************************************************)
(* A two-stage round (genVnodes1/2, trimedges1/2, trimrename1/2): the host *)
(* launches the two kernels of every part into the default stream without  *)
(* waiting, the device runs them, each with nblocks blocks.                *)
(***************************************************************************)

\* a device that starts a launched kernel whatever else is running
StreamUnordered(running) == TRUE

\* kernels launched into one stream run in the order of their launch: the
\* next one begins when none is running
StreamReady(running) == running = {}

\* every block on the first slice
ScratchShared(blockIdx) == 0

\* the scratch slice and name table of a block: &tbuckets[blockIdx.x],
\* tnames[blockIdx.x]
ScratchOf(blockIdx) == blockIdx

\* the row or column of B of a block: blockIdx.x + part * gridDim.x
LineOf(blockIdx, part, gridDim) == blockIdx + part * gridDim

\* the host enters the loop for (part = 0; part < NX/tp.nblocks; part++) of
\* trim(), _trimedges or _trimrename
StRound(round, nblocks) ==
  /\ tk.st.phase = "idle"
  /\ tk' = [tk EXCEPT !.st = [NoStages EXCEPT !.phase = round, !.nblocks = nblocks]]
  /\ UNCHANGED <<alive, queues, fc, ctx, call, rn>>

\* one launch of the loop's body: stage 1 of the part, then stage 2, then
\* part++
StHostLaunch ==
  /\ tk.st.phase # "idle"
  /\ tk.st.part < NX \div tk.st.nblocks
  /\ tk' = [tk EXCEPT !.st.stream = Append(@, [stage |-> tk.st.stage, part |-> tk.st.part]),
                      !.st.stage = 3 - @,
                      !.st.part = IF tk.st.stage = 2 THEN @ + 1 ELSE @]
  /\ UNCHANGED <<alive, queues, fc, ctx, call, rn>>

\* the device begins the kernel at the head of the stream
StKernelBegin ==
  /\ tk.st.stream # <<>>
  /\ StreamReady(tk.st.running)
  /\ tk' = [tk EXCEPT !.st.stream = Tail(@),
                      !.st.running = @ \cup
                        {[stage |-> Head(tk.st.stream).stage, part |-> Head(tk.st.stream).part,
                          pc |-> [b \in 0..(tk.st.nblocks - 1) |-> "pending"],
                          saw |-> [b \in 0..(tk.st.nblocks - 1) |-> -2]]}]
  /\ UNCHANGED <<alive, queues, fc, ctx, call, rn>>

\* block b of a running kernel k makes its next step: it reads its input
\* (stage 1: its line of B; stage 2: its scratch slice, of which saw keeps
\* what it found), then writes its output (stage 1: its scratch slice;
\* stage 2: its line of B)
StBlockStep(k, b) ==
  /\ k \in tk.st.running
  /\ k.pc[b] # "done"
  /\ tk' = [tk EXCEPT
       !.st.running = (@ \ {k}) \cup
          {IF k.pc[b] = "pending"
             THEN [k EXCEPT !.pc[b] = "read",
                            !.saw[b] = IF k.stage = 2 THEN tk.st.T[ScratchOf(b)] ELSE -2]
             ELSE [k EXCEPT !.pc[b] = "done"]},
       !.st.T = IF k.pc[b] = "read" /\ k.stage = 1
                  THEN [@ EXCEPT ![ScratchOf(b)] = k.part] ELSE @,
       !.st.acc = @ \cup
          {IF (k.stage = 1) = (k.pc[b] = "pending")
             THEN [stage |-> k.stage, part |-> k.part, b |-> b, w |-> k.stage = 2,
                   in |-> "B", at |-> LineOf(b, k.part, tk.st.nblocks)]
             ELSE [stage |-> k.stage, part |-> k.part, b |-> b, w |-> k.stage = 1,
                   in |-> "T", at |-> ScratchOf(b)]}]
  /\ UNCHANGED <<alive, queues, fc, ctx, call, rn>>

\* a kernel ends when its blocks have
StKernelEnd(k) ==
  /\ k \in tk.st.running
  /\ \A b \in DOMAIN k.pc : k.pc[b] = "done"
  /\ tk' = [tk EXCEPT !.st.running = @ \ {k}]
  /\ UNCHANGED <<alive, queues, fc, ctx, call, rn>>

\* cudaDeviceSynchronize() after the loop returns when the stream is done
StSync ==
  /\ tk.st.phase # "idle"
  /\ tk.st.part >= NX \div tk.st.nblocks
  /\ tk.st.stream = <<>> /\ tk.st.running = {}
  /\ tk' = [tk EXCEPT !.st = NoStages]
  /\ UNCHANGED <<alive, queues, fc, ctx, call, rn>>

NextK ==
  \/ \E round \in {"genVnodes", "trimedges", "trimrename"}, nblocks \in 1..NX :
       StRound(round, nblocks)
  \/ StHostLaunch
  \/ StKernelBegin
  \/ \E k \in tk.st.running, b \in 0..(NX - 1) : b \in DOMAIN k.pc /\ StBlockStep(k, b)
  \/ \E k \in tk.st.running : StKernelEnd(k)
  \/ StSync

SpecK == Init /\ [][NextK]_vars

(***************************************************************************)
(* C26.  Stage ordering within a round: a block of stage 2 reads its       *)
(* scratch slice only when stage 1 of the same part has written it, stage  *)
(* 1 of the next part does not overwrite a slice while stage 2 of the      *)
(* current part runs, and the kernels of a round do not overlap.           *)
(***************************************************************************)
C26_StageOrder ==
  /\ Cardinality(tk.st.running) <= 1
  /\ \A k \in tk.st.running : \A b \in DOMAIN k.pc :
       /\ k.saw[b] \in {-2, k.part}
       /\ k.stage = 2 => tk.st.T[ScratchOf(b)] = k.part

\* stage 2 of the second part is running, a block of it has read the slice
\* that both parts wrote, and the host launched everything long before
C26_Witness ==
  /\ tk.st.stream = <<>>
  /\ \E k \in tk.st.running : k.stage = 2 /\ k.part = 1 /\ k.saw[0] = 1

(***************************************************************************)
(* C27.  In a two-stage round block b reads and writes only its own        *)
(* scratch slice, and the line of B that it writes in stage 2 is written   *)
(* by no other block of the same launch.                                   *)
(***************************************************************************)
C27_OwnSlice ==
  /\ \A a \in tk.st.acc : a.in = "T" => a.at = a.b
  /\ \A a1, a2 \in tk.st.acc :
       (/\ a1.in = "B" /\ a2.in = "B" /\ a1.w /\ a2.w
        /\ a1.part = a2.part /\ a1.b # a2.b) => a1.at # a2.at

\* two blocks of one launch of stage 2 have each read their slice and
\* written their line of B
C27_Witness ==
  \E a1, a2 \in tk.st.acc :
    /\ a1.in = "B" /\ a2.in = "B" /\ a1.w /\ a2.w
    /\ a1.part = a2.part /\ a1.b # a2.b
    /\ \E a3 \in tk.st.acc : a3.in = "T" /\ ~a3.w /\ a3.b = a1.b



(***************************************************************************)
(* The rounds of trim() on the records of the buckets: genUnodes writes a  *)
(* record for every nonce it visits, every later round (genVnodes,         *)
(* trimedges, trimrename, trimedges3, trimrename3) keeps the records whose *)
(* node on the round's side was set twice in its twice_set.  A round is    *)
(* one step here; its kernels and their interleavings are the matter of    *)
(* the scenarios above.                                                    *)
(***************************************************************************)

\* the nonces genUnodes enumerates: NY columns of NYZ nonces (NY = NX)
GrNonces == 0..(NX * NYZ - 1)

\* the endpoints <<u, v>> of nonce n (dipnode(sip_keys, n, 0) and
\* dipnode(sip_keys, n, 1)) for the keys of the scenario: one path through
\* all nonces, one cycle through all nonces, every two nonces on the same
\* pair of nodes, or all nonces on one U node; the nodes are spread over
\* the X values
GrEdge(graph, n) ==
  LET i == CASE graph = "path"  -> <<(n + 1) \div 2, n \div 2>>
             [] graph = "cycle" -> <<((n + 1) \div 2) % ((NX * NYZ) \div 2), n \div 2>>
             [] graph = "twins" -> <<n \div 2, n \div 2>>
             [] graph = "star"  -> <<0, n>>
  IN  <<(i[1] % NX) * NYZ + (i[1] \div NX), (i[2] % NX) * NYZ + (i[2] \div NX)>>

\* every thread starting at the first nonce of the column
VisitsUnstrided(gridDim, bDim, n) ==
  Cardinality({bt \in (0..(gridDim - 1)) \X (0..(bDim - 1)) :
                 /\ (n \div NYZ) >= bt[1] /\ ((n \div NYZ) - bt[1]) % gridDim = 0
                 /\ (n % NYZ) % bDim = 0})

\* genUnodes: the number of (block, thread) pairs that visit nonce n:
\* for (y = blockIdx.x; y < NY; y += gridDim.x)
\*   for (edge = (y << YZBITS) + threadIdx.x; edge < endedge; edge += blockDim.x)
Visits(gridDim, bDim, n) ==
  Cardinality({bt \in (0..(gridDim - 1)) \X (0..(bDim - 1)) :
                 /\ (n \div NYZ) >= bt[1] /\ ((n \div NYZ) - bt[1]) % gridDim = 0
                 /\ (n % NYZ) >= bt[2] /\ ((n % NYZ) - bt[2]) % bDim = 0})

\* the records in all buckets: the sum of the bucket sizes over the slot width
Records(cnt) ==
  Cardinality({nk \in GrNonces \X (1..((NX + 1) * (NX + 1))) : nk[2] <= cnt[nk[1]]})

\* the nonces with a record
Live(cnt) == {n \in GrNonces : cnt[n] > 0}

\* the records on the node of nonce n on a side (1: U, 2: V)
Degree(cnt, graph, side, n) ==
  Cardinality({mk \in GrNonces \X (1..((NX + 1) * (NX + 1))) :
                 /\ GrEdge(graph, mk[1])[side] = GrEdge(graph, n)[side]
                 /\ mk[2] <= cnt[mk[1]]})

\* a round that copies every record
KeepAll(cnt, graph, side) == cnt

\* a round on a side: degs.set of the side's node for every record, then
\* the records with degs.test are written
Prune(cnt, graph, side) ==
  [n \in GrNonces |-> IF Degree(cnt, graph, side, n) >= 2 THEN cnt[n] ELSE 0]

\* the rounds after genUnodes: genVnodes (on U), then on V and on U in turn
\* for (round = 2; round < tp.ntrims-2; round += 2), then trimrename3<true>
\* (on V) and trimrename3<false> (on U)
GrRounds == 3 + 2 * (IF NTrims > 4 THEN (NTrims - 3) \div 2 ELSE 0)

\* trim() up to the first cudaDeviceSynchronize: genUnodes with
\* tp.genUblocks blocks of tp.genUtpb threads writes the record of nonce n
\* to bucket [ux][n >> YZBITS], once for every thread that visits n
GrGenU(graph, gridDim, bDim) ==
  /\ tk.gr.k = -1
  /\ tk' = [tk EXCEPT !.gr = [NoTrim EXCEPT
       !.graph = graph, !.k = 0, !.genUblocks = gridDim, !.genUtpb = bDim,
       !.cnt = [n \in GrNonces |-> Visits(gridDim, bDim, n)],
       !.at = [n \in GrNonces |-> <<GrEdge(graph, n)[1] \div NYZ, n \div NYZ>>]]]
  /\ UNCHANGED <<alive, queues, fc, ctx, call, rn>>

\* the next round of trim(), on U when k is even and on V when it is odd;
\* the records it keeps are written to bucket [ux][vx]
GrRound ==
  /\ tk.gr.k >= 0 /\ tk.gr.k < GrRounds
  /\ tk' = [tk EXCEPT !.gr.cnt = Prune(tk.gr.cnt, tk.gr.graph, 1 + (tk.gr.k % 2)),
                      !.gr.at = [n \in GrNonces |->
                                   <<GrEdge(tk.gr.graph, n)[1] \div NYZ,
                                     GrEdge(tk.gr.graph, n)[2] \div NYZ>>],
                      !.gr.k = @ + 1,
                      !.gr.prev = Records(tk.gr.cnt),
                      !.gr.inU = IF tk.gr.k % 2 = 0 THEN Live(tk.gr.cnt) ELSE @,
                      !.gr.inV = IF tk.gr.k % 2 = 1 THEN Live(tk.gr.cnt) ELSE @]
  /\ UNCHANGED <<alive, queues, fc, ctx, call, rn>>

\* trim() has returned and the next solve begins
GrEnd ==
  /\ tk.gr.k = GrRounds
  /\ tk' = [tk EXCEPT !.gr = NoTrim]
  /\ UNCHANGED <<alive, queues, fc, ctx, call, rn>>

NextG ==
  \/ \E graph \in {"path", "cycle", "twins", "star"}, gridDim \in 1..(NX + 1), bDim \in 1..(NX + 1) :
       GrGenU(graph, gridDim, bDim)
  \/ GrRound
  \/ GrEnd

SpecG == Init /\ [][NextG]_vars

\* the nonces of a set that have the node of nonce n on a side
Incident(graph, side, n, among) ==
  {m \in among : GrEdge(graph, m)[side] = GrEdge(graph, n)[side]}

(***************************************************************************)
(* C29.  At the end of trimming the surviving graph has no leaves: both    *)
(* endpoints of every edge of the final list have at least two incident    *)
(* edges in that list.                                                     *)
(***************************************************************************)
C29_NoLeaves ==
  tk.gr.k = GrRounds =>
    \A n \in Live(tk.gr.cnt) : \A side \in {1, 2} :
      Cardinality(Incident(tk.gr.graph, side, n, Live(tk.gr.cnt))) >= 2

\* C29 as amended: the U endpoint of every edge of the final list had two
\* incident edges in the list that entered the last round, its V endpoint
\* in the list that entered the round before
C29_NoLeavesEntering ==
  tk.gr.k = GrRounds =>
    \A n \in Live(tk.gr.cnt) :
      /\ Cardinality(Incident(tk.gr.graph, 1, n, tk.gr.inU)) >= 2
      /\ Cardinality(Incident(tk.gr.graph, 2, n, tk.gr.inV)) >= 2

\* the trimming of the path has ended with edges left, one of them on a V
\* node that has no other edge in the final list
C29_Witness ==
  /\ tk.gr.k = GrRounds
  /\ tk.gr.graph = "path"
  /\ \E n \in Live(tk.gr.cnt) :
       /\ Cardinality(Incident("path", 2, n, Live(tk.gr.cnt))) = 1
       /\ Cardinality(Incident("path", 1, n, Live(tk.gr.cnt))) >= 2

(***************************************************************************)
(* C30.  At every round boundary every surviving edge has exactly one      *)
(* record in all buckets: after genUnodes every nonce has exactly one,     *)
(* in the row of the X field of its U endpoint, whatever the grid and      *)
(* block dimensions; the number of records (the sum of the bucket sizes    *)
(* over the slot width) is the number of surviving edges and never         *)
(* increases from a round to the next.                                     *)
(***************************************************************************)
C30_OneRecordPerEdge ==
  tk.gr.k >= 0 =>
    /\ tk.gr.k = 0 =>
         \A n \in GrNonces :
           tk.gr.cnt[n] = 1 /\ tk.gr.at[n][1] = GrEdge(tk.gr.graph, n)[1] \div NYZ
    /\ \A n \in GrNonces : tk.gr.cnt[n] <= 1
    /\ Records(tk.gr.cnt) = Cardinality(Live(tk.gr.cnt))
    /\ tk.gr.k > 0 => Records(tk.gr.cnt) <= tk.gr.prev

\* genUnodes ran with more blocks than columns and a block size that does
\* not divide NYZ, and a later round has removed records and left others
C30_Witness ==
  /\ tk.gr.k > 1
  /\ tk.gr.genUblocks = NX + 1 /\ tk.gr.genUtpb = NX + 1
  /\ Records(tk.gr.cnt) > 0
  /\ Records(tk.gr.cnt) < tk.gr.prev
  /\ tk.gr.prev < Cardinality(GrNonces)



(***************************************************************************)
(* C31.  One caller pushing inputs numbered in the order of their          *)
(* acceptance, one worker, a back-end that solves one input at a time:     *)
(* the inputs that wait (held by the worker or in the input queue) are     *)
(* always the most recently accepted ones, in the order of acceptance;     *)
(* the number of waiting inputs goes down only by the worker handing the   *)
(* oldest of them to the back-end, so the inputs are handed over in the    *)
(* order push accepted them and none is handed over twice; and no input    *)
(* is taken from the queue in a state in which the back-end is not ready.  *)
(***************************************************************************)
Waiting ==
  LET w == CHOOSE x \in Workers : \A y \in Workers : x <= y
  IN  (IF worker[w].pc = "process" THEN <<worker[w].item>> ELSE <<>>) \o INPUT_QUEUE

C31_HandedInOrder ==
  /\ [](/\ \A i \in 1..Len(Waiting) : Waiting[i].id = accepted - Len(Waiting) + i - 1
        /\ Len(solves) <= 1)
  /\ [][Len(Waiting') < Len(Waiting) =>
          /\ Waiting' = Tail(Waiting)
          /\ solves' = Append(solves, Head(Waiting))]_vars
  /\ [][Len(INPUT_QUEUE') < Len(INPUT_QUEUE) => cuckoo_internal_ready_for_data]_vars

\* the second input accepted is being solved, it was handed over second, a
\* third one waits in the queue and the worker has found the back-end not
\* ready for it
C31_Witness ==
  /\ Len(solves) = 1 /\ solves[1].id = 1
  /\ is_working
  /\ INPUT_QUEUE # <<>> /\ Head(INPUT_QUEUE).id = 2
  /\ \E w \in Workers : worker[w].pc = "while"



(***************************************************************************)
(* C32.  When the trimmed edge list of a job is empty (no bucket holds a   *)
(* word), findcycles finds no cycle and records no solution, the process   *)
(* does not exit, every entry of the cuckoo table is still NIL, and solve  *)
(* returns 0 solutions, whatever the context solved before.                *)
(***************************************************************************)
EmptyTrimmed(h) == \A ux, vx \in 0..(NX - 1) : Trimmed(h)[ux][vx] = <<>>

C32_EmptyGraph ==
  (ctx.cuckoo # <<>> /\ EmptyTrimmed(ctx.keys)) =>
    /\ ctx.found = 0 /\ ctx.uvs = <<>>
    /\ ~ctx.exited /\ alive
    /\ \A n \in DOMAIN ctx.cuckoo : ctx.cuckoo[n] = CUCKOO_NIL
    /\ Len(ctx.sols) = 0

\* a context that found a solution in the job before has solved a header
\* whose trimmed edge list is empty
C32_Witness ==
  /\ ctx.cuckoo # <<>> /\ EmptyTrimmed(ctx.keys)
  /\ ctx.prev # <<>>
  /\ ctx.sols = <<>>



(***************************************************************************)
(* Pass scenario: the block of a second-stage kernel (genVnodes2,          *)
(* trimedges2, trimrename2) works through the tiles of its row of the      *)
(* scratch: reset of the twice_set, barrier, set() for every record of the *)
(* tile, barrier, test() and write for every record, barrier, next tile.   *)
(***************************************************************************)

\* the tiles of the row that the scenario follows (the first values of uy)
PassYs == {0, 1}

\* the Z values of the records: two indices that share a word
PassZs == {0, 1}

\* the rows of the scratch: up to RowRecords records in the order stage 1
\* left them, each in the tile of its Y
Rows ==
  UNION {[1..n -> [y : PassYs, z : PassZs]] : n \in 0..RowRecords}

\* tbuckets[blockIdx.x][y]: the records of the row that lie in tile y, by
\* their positions in the row
Tile(recs, y) ==
  LET S == {i \in 1..Len(recs) : recs[i].y = y}
  IN  [k \in 1..Cardinality(S) |-> CHOOSE i \in S : Cardinality({j \in S : j < i}) = k - 1]

\* the kernel is launched on the row recs; the shared twice_set holds what
\* the memory held
PassLaunch(recs, g) ==
  /\ tk.ps.phase = "off"
  /\ tk' = [tk EXCEPT !.ps = [NoPass EXCEPT
                                !.phase = "run",
                                !.recs = recs,
                                !.bits = [b \in 0..(TWICE_WORDS - 1) |-> g],
                                !.thr = [t \in Threads |->
                                           [pc |-> "reset", y |-> 0, i |-> 0, old |-> {},
                                            nb |-> 0]]]]
  /\ UNCHANGED <<alive, queues, fc, ctx, call, rn>>

\* the thread th of the block at the record of its stride that tile holds
PassRecord(recs, th) == recs[Tile(recs, th.y)[th.i + 1]]

\* One step of thread t of the block.  reset: its words of the twice_set
\* are cleared and it arrives at the barrier.  bar: __syncthreads() lets it
\* go on when every thread has arrived; the first barrier of a tile leads
\* to the loop of set(), the second to the loop of test(), the third to the
\* next tile.  set, or2: the two atomicOr of set() for the record at
\* readsmall + SIZE * (threadIdx.x + k * blockDim.x).  test: the record is
\* written to the destination when test() of its Z is non-zero.
PassStep(t) ==
  LET th == tk.ps.thr[t]
      n  == Len(Tile(tk.ps.recs, th.y))
  IN
  /\ tk.ps.phase = "run"
  /\ th.pc \in {"reset", "bar", "set", "or2", "test"}
  /\ (th.pc = "bar" => \A s \in Threads : tk.ps.thr[s].nb >= th.nb)
  /\ tk' =
       CASE th.pc = "reset" ->
              [tk EXCEPT !.ps.bits = [b \in 0..(TWICE_WORDS - 1) |->
                                        IF b % blockDim = t THEN {} ELSE tk.ps.bits[b]],
                         !.ps.thr[t].pc = "bar", !.ps.thr[t].nb = @ + 1]
         [] th.pc = "bar" ->
              IF th.nb % 3 = 1 THEN [tk EXCEPT !.ps.thr[t].pc = "set", !.ps.thr[t].i = t]
              ELSE IF th.nb % 3 = 2 THEN [tk EXCEPT !.ps.thr[t].pc = "test", !.ps.thr[t].i = t]
              ELSE IF th.y + 1 \in PassYs
                THEN [tk EXCEPT !.ps.thr[t].pc = "reset", !.ps.thr[t].y = @ + 1,
                                !.ps.thr[t].i = 0]
              ELSE [tk EXCEPT !.ps.thr[t].pc = "done"]
         [] th.pc = "set" ->
              IF th.i >= n THEN [tk EXCEPT !.ps.thr[t].pc = "bar", !.ps.thr[t].nb = @ + 1]
              ELSE LET u == PassRecord(tk.ps.recs, th).z
                   IN  [tk EXCEPT !.ps.bits[TwiceIdx(u)] = @ \cup {TwiceBit(u)},
                                  !.ps.thr[t].old = tk.ps.bits[TwiceIdx(u)],
                                  !.ps.thr[t].pc = "or2"]
         [] th.pc = "or2" ->
              LET u == PassRecord(tk.ps.recs, th).z
              IN  [tk EXCEPT !.ps.bits[TwiceIdx(u)] =
                                 IF SecondNeeded(th.old, u) THEN @ \cup {TwiceBit(u) + 1} ELSE @,
                             !.ps.thr[t].old = {},
                             !.ps.thr[t].i = @ + blockDim,
                             !.ps.thr[t].pc = "set"]
         [] th.pc = "test" ->
              IF th.i >= n THEN [tk EXCEPT !.ps.thr[t].pc = "bar", !.ps.thr[t].nb = @ + 1]
              ELSE [tk EXCEPT !.ps.out =
                                 IF test(tk.ps.bits, PassRecord(tk.ps.recs, th).z) # 0
                                   THEN @ \cup {Tile(tk.ps.recs, th.y)[th.i + 1]} ELSE @,
                              !.ps.thr[t].i = @ + blockDim]
  /\ UNCHANGED <<alive, queues, fc, ctx, call, rn>>

NextP ==
  \/ \E recs \in Rows, g \in TwiceGarbage : PassLaunch(recs, g)
  \/ \E t \in Threads : PassStep(t)

SpecP == Init /\ [][NextP]_vars

(***************************************************************************)
(* C33.  Under every interleaving of the threads of the block, a pass      *)
(* writes a record only if another record of the same tile has the same    *)
(* node on the trimmed side, and once every thread has arrived at the      *)
(* barrier that ends a tile, every such record of the tile has been        *)
(* written: no edge of a node of degree two or more is dropped and no leaf *)
(* edge survives.                                                          *)
(***************************************************************************)
SharedEnd(recs) ==
  {i \in 1..Len(recs) : \E j \in 1..Len(recs) : j # i /\ recs[j] = recs[i]}

RECURSIVE RootOf(_, _)
RootOf(C, x) == IF C[x] = CUCKOO_NIL THEN x ELSE RootOf(C, C[x])

Links(C) == {{x, C[x]} : x \in {y \in DOMAIN C : C[y] # CUCKOO_NIL}}

C34_ExtendShorter ==
  [][\A e \in FinderWords :
       LET C  == fc.st.cuckoo
           C2 == fc'.st.cuckoo
           u0 == 2 * (e \div NYZ2)
           v0 == 2 * (e % NYZ2) + 1
           pu == path(C, u0)
           pv == path(C, v0)
           uShorter == Len(pu.us) < Len(pv.us)
           short == IF uShorter THEN pu.us ELSE pv.us
           long  == IF uShorter THEN pv.us ELSE pu.us
       IN  (FindStep(e) /\ pu.ok /\ pv.ok /\ RootOf(C, u0) # RootOf(C, v0)) =>
             /\ C2[short[1]] = (IF uShorter THEN v0 ELSE u0)
             /\ \A i \in 2..Len(short) : C2[short[i]] = short[i - 1]
             /\ \A x \in DOMAIN C : (\A i \in 1..Len(short) : short[i] # x) => C2[x] = C[x]
             /\ RootOf(C2, u0) = long[Len(long)]
             /\ RootOf(C2, v0) = long[Len(long)]
             /\ Links(C2) = Links(C) \cup {{u0, v0}}
             /\ {u0, v0} \notin Links(C)]_vars

\* four edges are linked in one chain u0 -> v0 -> u1 -> v1 -> u2, the state
\* that the edge (u1, v0) leaves when u1 is two links from its root u2 and
\* the path of v0, one link long, is turned around
C34_Witness ==
  /\ fc.n = 4 /\ Cardinality(fc.linked) = 4
  /\ fc.st.cuckoo[0] = 1 /\ fc.st.cuckoo[1] = 2 /\ fc.st.cuckoo[2] = 3
  /\ fc.st.cuckoo[3] = 4 /\ fc.st.cuckoo[4] = CUCKOO_NIL



(***************************************************************************)
(* C35.  At most one worker thread is alive at any time, whatever starts,  *)
(* stops and resets are called: no two threads of cuckoo_process exist at  *)
(* once, and so no two of them are at the dequeue or hold an input they    *)
(* have taken from the queue.                                              *)
(***************************************************************************)
C35_OneWorker ==
  /\ Cardinality({w \in Workers : worker[w].pc # "none"}) <= 1
  /\ Cardinality({w \in Workers : worker[w].pc \in {"dequeue", "process"}}) <= 1



(***************************************************************************)
(* Edge function scenario: dipnode is called for one nonce and side under  *)
(* one set of keys, in the variant for devices with the funnel shifter     *)
(* (64-bit words as pairs of 32-bit halves) and in the scalar variant.     *)
(* Words are modelled as the sets of their one-bits.                       *)
(***************************************************************************)

\* bits of a uint64_t, and of each half of a uint2
SipBits == 64

HalfBits == SipBits \div 2

\* the one-bits of a number below 2 * NEDGES, and of 0xff
BitsOf(n) == {i \in 0..EdgeBits : (n \div (2 ^ i)) % 2 = 1}

Byte == 0..7

\* the number whose one-bits are the bits of x below EDGEBITS: x & EDGEMASK
RECURSIVE MaskEdge(_, _)
MaskEdge(x, i) ==
  IF i = EdgeBits THEN 0 ELSE (IF i \in x THEN 2 ^ i ELSE 0) + MaskEdge(x, i + 1)

\* the siphash keys the scenario calls dipnode with: k0 = k1 in the first
SipKeys ==
  {<<{0, 5}, {0, 5}, {1, 40}, {63}>>,
   <<{0}, {1}, {2}, {3}>>,
   <<{}, {0, 31, 32, 63}, {7, 33}, {}>>,
   <<0..(SipBits - 1), {}, {31}, {32}>>}

Xor(a, b) == (a \ b) \cup (b \ a)

\* the carry into bit i of a + b + c: the carry in has run through bits
\* that each hold a one, or a bit below i where both hold a one has sent it
Carry(a, b, c, i) ==
  \/ c = 1 /\ \A k \in 0..(i - 1) : k \in a \/ k \in b
  \/ \E j \in 0..(i - 1) :
       j \in a /\ j \in b /\ \A k \in (j + 1)..(i - 1) : k \in a \/ k \in b

\* a + b + c on words of w bits; bit w of the result is the carry out
AddBits(a, b, c, w) ==
  {i \in 0..w : IF i = w THEN Carry(a, b, c, w)
                         ELSE ((i \in a) # (i \in b)) # Carry(a, b, c, i)}

\* u64: a + b, and ROTL(x, b) = (x << b) | (x >> (64 - b))
Add64(a, b) == AddBits(a, b, 0, SipBits) \ {SipBits}

ROTL64(x, b) == {(i + b) % SipBits : i \in x}

\* vectorize, devectorize: mov.b64 between a u64 and its halves {x, y}
vectorize(x) ==
  [x |-> {i \in x : i < HalfBits}, y |-> {i - HalfBits : i \in {j \in x : j >= HalfBits}}]

devectorize(a) == a.x \cup {i + HalfBits : i \in a.y}

\* uint2: a ^ b
Xor2(a, b) == [x |-> Xor(a.x, b.x), y |-> Xor(a.y, b.y)]

\* uint2: a += b is add.cc.u32 of the low halves, addc.u32 of the high ones
Add2(a, b) ==
  CHOOSE r \in
    {[x |-> lo \ {HalfBits},
      y |-> AddBits(a.y, b.y, IF HalfBits \in lo THEN 1 ELSE 0, HalfBits) \ {HalfBits}]
       : lo \in {AddBits(a.x, b.x, 0, HalfBits)}} : TRUE

\* shf.l.wrap.b32 d, a, b, c: the high half of (b:a) << (c & 31)
shf(a, b, c) ==
  {j - HalfBits : j \in {i + (c % HalfBits) : i \in devectorize([x |-> a, y |-> b])}
                         \cap HalfBits..(SipBits - 1)}

\* ROTL(uint2 a, offset) with the funnel shifter
ROTL2(a, offset) ==
  IF offset >= HalfBits
    THEN [x |-> shf(a.x, a.y, offset), y |-> shf(a.y, a.x, offset)]
    ELSE [x |-> shf(a.y, a.x, offset), y |-> shf(a.x, a.y, offset)]

\* SIPROUND, as the list of its assignments to v0..v3: v0 += v1; v2 += v3;
\* v1 = ROTL(v1,13); v3 = ROTL(v3,16); v1 ^= v0; v3 ^= v2; v0 = ROTL(v0,32);
\* v2 += v1; v0 += v3; v1 = ROTL(v1,17); v3 = ROTL(v3,21); v1 ^= v2;
\* v3 ^= v0; v2 = ROTL(v2,32)
SIPROUND ==
  <<<<"add", 0, 1>>, <<"add", 2, 3>>, <<"rot", 1, 13>>, <<"rot", 3, 16>>,
    <<"xor", 1, 0>>, <<"xor", 3, 2>>, <<"rot", 0, 32>>, <<"add", 2, 1>>,
    <<"add", 0, 3>>, <<"rot", 1, 17>>, <<"rot", 3, 21>>, <<"xor", 1, 2>>,
    <<"xor", 3, 0>>, <<"rot", 2, 32>>>>

\* one assignment of SIPROUND on u64 words, and on uint2 words
Assign64(v, op) ==
  [v EXCEPT ![op[2]] = IF op[1] = "add" THEN Add64(v[op[2]], v[op[3]])
                       ELSE IF op[1] = "xor" THEN Xor(v[op[2]], v[op[3]])
                       ELSE ROTL64(v[op[2]], op[3])]

Assign2(v, op) ==
  [v EXCEPT ![op[2]] = IF op[1] = "add" THEN Add2(v[op[2]], v[op[3]])
                       ELSE IF op[1] = "xor" THEN Xor2(v[op[2]], v[op[3]])
                       ELSE ROTL2(v[op[2]], op[3])]

\* SIPROUND from its assignment i on, and n times SIPROUND
RECURSIVE Round64(_, _)
Round64(v, i) ==
  IF i > Len(SIPROUND) THEN v
  ELSE CHOOSE r \in {Round64(w, i + 1) : w \in {Assign64(v, SIPROUND[i])}} : TRUE

RECURSIVE Rounds64(_, _)
Rounds64(v, n) ==
  IF n = 0 THEN v
  ELSE CHOOSE r \in {Rounds64(w, n - 1) : w \in {Round64(v, 1)}} : TRUE

RECURSIVE Round2(_, _)
Round2(v, i) ==
  IF i > Len(SIPROUND) THEN v
  ELSE CHOOSE r \in {Round2(w, i + 1) : w \in {Assign2(v, SIPROUND[i])}} : TRUE

RECURSIVE Rounds2(_, _)
Rounds2(v, n) ==
  IF n = 0 THEN v
  ELSE CHOOSE r \in {Rounds2(w, n - 1) : w \in {Round2(v, 1)}} : TRUE

\* v0 ^= nonce; v2 ^= 0xff between the rounds
Mid64(v, nonce) == [v EXCEPT ![0] = Xor(@, nonce), ![2] = Xor(@, Byte)]

Mid2(v, nonce) ==
  [v EXCEPT ![0] = Xor2(@, vectorize(nonce)), ![2] = Xor2(@, vectorize(Byte))]

\* dipnode of devices with __CUDA_ARCH__ >= 320: v0..v3 start from k0, k1,
\* k2 and k3 ^ nonce
dipnode_uint2(keys, nce, uorv) ==
  CHOOSE node \in
    {MaskEdge(devectorize(Xor2(Xor2(v[0], v[1]), Xor2(v[2], v[3]))), 0) :
       v \in {Rounds2(Mid2(m, BitsOf(2 * nce + uorv)), 4) :
                m \in {Rounds2([k \in 0..3 |->
                                  vectorize(IF k = 3 THEN Xor(keys[4], BitsOf(2 * nce + uorv))
                                                     ELSE keys[k + 1])], 2)}}} : TRUE

\* dipnode of the other devices: u64 v0 = keys.k0, v1 = keys.k0,
\* v2 = keys.k2, v3 = keys.k3 ^ nonce
dipnode_u64(keys, nce, uorv) ==
  CHOOSE node \in
    {MaskEdge(Xor(Xor(v[0], v[1]), Xor(v[2], v[3])), 0) :
       v \in {Rounds64(Mid64(m, BitsOf(2 * nce + uorv)), 4) :
                m \in {Rounds64([k \in 0..3 |->
                                   IF k = 3 THEN Xor(keys[4], BitsOf(2 * nce + uorv))
                                   ELSE IF k = 1 THEN keys[1]
                                   ELSE keys[k + 1]], 2)}}} : TRUE

\* a kernel calls dipnode(sip_keys, nce, uorv); the scenario records what
\* each variant of the function returns
DipCall(keys, nce, uorv) ==
  /\ tk.sh.nce = -1
  /\ tk' = [tk EXCEPT !.sh = [keys |-> keys, nce |-> nce, uorv |-> uorv,
                              scalar |-> dipnode_u64(keys, nce, uorv),
                              vector |-> dipnode_uint2(keys, nce, uorv)]]
  /\ UNCHANGED <<alive, queues, fc, ctx, call, rn>>

NextH == \E keys \in SipKeys, nce \in 0..(NEDGES - 1), uorv \in {0, 1} : DipCall(keys, nce, uorv)

SpecH == Init /\ [][NextH]_vars

(***************************************************************************)
(* C36.  For every key, nonce and side the scalar variant of dipnode and   *)
(* the variant on pairs of halves return the same node.                    *)
(***************************************************************************)
C36_VariantsAgree == tk.sh.nce # -1 => tk.sh.scalar = tk.sh.vector



(***************************************************************************)
(* Host scenario: solve() calls trim(), which makes its device calls one   *)
(* after the other; any of them may return an error.                       *)
(***************************************************************************)

\* The device calls of trim() whose result goes through checkCudaErrors, in
\* order, each with whether trim() tests what checkCudaErrors returns: four
\* cudaEventCreate, then cudaDeviceSynchronize after genUnodes, after the
\* genVnodes kernels, after each even and each odd round, and after each of
\* the two trimrename3.
TrimCalls ==
  LET ntrims == NTrims - (NTrims % 2)
      rounds == {r \in 2..(ntrims - 3) : r % 2 = 0}
      Pairs[k \in 0..Cardinality(rounds)] ==
        IF k = 0 THEN <<>>
        ELSE Pairs[k - 1] \o <<[call |-> "even round", tested |-> FALSE],
                               [call |-> "odd round", tested |-> TRUE]>>
  IN  <<[call |-> "cudaEventCreate", tested |-> TRUE],
        [call |-> "cudaEventCreate", tested |-> TRUE],
        [call |-> "cudaEventCreate", tested |-> TRUE],
        [call |-> "cudaEventCreate", tested |-> TRUE],
        [call |-> "genUnodes", tested |-> TRUE],
        [call |-> "genVnodes", tested |-> FALSE]>>
      \o Pairs[Cardinality(rounds)]
      \o <<[call |-> "trimrename3", tested |-> TRUE],
           [call |-> "trimrename3", tested |-> TRUE]>>

\* One step of the host in solve().  Outside trim: solve() calls trim().
\* At a device call that returns code: gpuAssert reports the error, resets
\* the device and marks it, and returns the code, unless the device is
\* marked already or the call succeeded, when it returns 0; trim() returns
\* 0 when it tests the result and the result is not 0.  After the last
\* call: trim() ends without a return statement, so its caller reads a
\* value ub that nothing defines; solve returns 0 when that is 0 and goes
\* on to findcycles otherwise.
TrimHostStep(code, ub) ==
  LET h == tk.tm
  IN
  /\ alive
  /\ h.pc = 0 => h.jobs < MaxTrims
  /\ tk' = [tk EXCEPT !.tm =
       IF h.pc = 0 THEN
         [h EXCEPT !.pc = 1, !.detected = 0, !.ret = -1, !.finder = FALSE, !.jobs = @ + 1]
       ELSE IF h.pc > Len(TrimCalls) THEN
         [h EXCEPT !.pc = 0, !.ret = ub, !.finder = (ub # 0)]
       ELSE IF code # "cudaSuccess" /\ ~h.threw_error THEN
         IF TrimCalls[h.pc].tested
           THEN [h EXCEPT !.pc = 0, !.threw_error = TRUE, !.detected = h.pc, !.ret = 0]
           ELSE [h EXCEPT !.pc = @ + 1, !.threw_error = TRUE, !.detected = h.pc]
       ELSE [h EXCEPT !.pc = @ + 1]]
  /\ UNCHANGED <<alive, queues, fc, ctx, call, rn>>

NextM == \E code \in {"cudaSuccess", "cudaErrorLaunchFailure"}, ub \in {0, 1} : TrimHostStep(code, ub)

SpecM == Init /\ [][NextM]_vars

(***************************************************************************)
(* C37.  Once a device error has been detected at a step of trim(), trim   *)
(* has returned 0 and solve does not run the cycle finder; and when trim   *)
(* returns without any error detected, it returns a non-zero value and     *)
(* solve goes on to the cycle finder.                                      *)
(***************************************************************************)
C37_ErrorsStopSolve ==
  /\ tk.tm.detected # 0 => (tk.tm.pc = 0 /\ tk.tm.ret = 0 /\ ~tk.tm.finder)
  /\ (tk.tm.pc = 0 /\ tk.tm.jobs > 0 /\ tk.tm.detected = 0) => (tk.tm.ret # 0 /\ tk.tm.finder)



(***************************************************************************)
(* C38: recovery is deterministic: for a fixed key and a fixed cycle the   *)
(* nonce array of recoveredges1 is the same under every interleaving of    *)
(* the recovery threads, two nonces on one endpoint pair included.         *)
(***************************************************************************)

\* C38: for the sip keys of the context and every cycle that solution()
\* recorded under them, recoveredges1 started from the same device array and
\* the same shared bitmap leaves the same nonces in sol under every thread
\* schedule
C38_RecoveryDeterministic ==
  \A i \in 1..Len(ctx.uvs) : \A g \in Garbage, stale \in StaleMaps :
    \A s1 \in Scheds, s2 \in Scheds :
      recoveredges1(ctx.keys, recoveredges(ctx.uvs[i]), g, s1, stale)
        = recoveredges1(ctx.keys, recoveredges(ctx.uvs[i]), g, s2, stale)



(***************************************************************************)
(* C39: from the first compression round on, the records written into a    *)
(* bucket never overlap the bucket's rename tables, which are the tail of   *)
(* the same byte arena: the size stays at most BUCKETSIZE less the bytes of *)
(* the four rename arrays.                                                  *)
(***************************************************************************)

\* words[BUCKETSIZE/sizeof(u32) - RENAMESIZE] is followed by the rename
\* arrays: the last RenameBytes bytes of the arena of bucket k
RenameArea(k) == (BytesAt(k) + BUCKETSIZE - RenameBytes)..(BytesAt(k) + BUCKETSIZE - 1)

====
